---- MODULE Spec2Model ----
(***************************************************************************)
(* Product analysis pipeline of azlan18/ProductAnalysis (server/app).      *)
(*                                                                         *)
(* The model follows one product_id: every collection of the store is read *)
(* and written through a filter on product_id, so the rows of other        *)
(* products never take part in a step.  State is the MongoDB collections   *)
(* (products, raw_reviews, analysis_results, processing_logs), the HTTP    *)
(* requests in flight on the analyze endpoint and the background tasks     *)
(* (pipeline runs).  A step is what one coroutine does between two awaits  *)
(* on the store or on an external provider.                                *)
(***************************************************************************)
EXTENDS Integers, Sequences, FiniteSets, TLC

\* ------------------------------------------------------------------ bounds
\* Total number of background pipeline runs the model lets start.
MaxRuns == 2

\* Longest LLM response text, in tokens.
MaxText == 4

\* Largest number of organic results in a search response.
MaxOrganic == 4

\* Largest number of URLs given to scrape_urls_parallel.
MaxUrls == 5

\* Longest key_differences list of a comparison result.
MaxDiffs == 4

\* Longest pros, cons or quotes list of a comparison result.
MaxQuotes == 2

\* Largest number of product ids in a compare request.
MaxIds == 5

\* Longest product name, in characters.
MaxName == 4

\* Last tick of the clock.
MaxClock == 1

\* Largest number of processing log rows of the product.
MaxRows == 3

\* Longest URL list whose progress values are computed.
MaxN == 12

\* ----------------------------------------------------------- input domains
\* HTTP clients that may have an analyze request in flight at the same time.
Clients == {"a", "b"}

\* What search_product_reviews can hand back: organic_results[1:3], i.e. no
\* link, one link or two links.
UrlLists == {<<>>, <<"u1">>, <<"u1", "u2">>}

\* Markdown the extraction provider returns for a URL ("" is empty content).
Content(url) == IF url = "u1" THEN "c1" ELSE "c2"

\* Analysis fields of AnalysisResult followed by the model (two of the
\* thirteen: one with a dict default, one with a list default).
Fields == {"sentiment", "pros"}

\* Key sets the LLM's JSON object may carry.
KeySets == {Fields, {"sentiment"}}

\* Field(default_factory=...) of the AnalysisResult model.
Default == <<"default">>

VARIABLES
    products,   \* products collection: {} or one Product document [status]
    raw,        \* raw_reviews collection: per task, the rows it inserted
    analysis,   \* analysis_results collection (set of documents)
    log,        \* processing_logs collection: per task, the rows it inserted
    lastLog,    \* the task that inserted the newest processing_logs row
    req,        \* per client: position of its analyze request
    resp,       \* last HTTP response of the analyze endpoint: code, "status"
    runs,       \* per background task: locals of analyze_product_pipeline
    nRuns,      \* number of background tasks started so far
    raced       \* history: two analyze requests have overlapped (a request
                \* passed the status check while another had passed it and
                \* not yet written "processing")

\* The services the pipeline and the comparison endpoint call, each followed
\* through one call at a time.
VARIABLES
    gptCall,    \* GPTService: locals of generate_response / analyze_product
    geminiCall, \* GeminiService.analyze_product: locals of one call
    searchCall, \* SerperService.search_product_reviews: locals of one call
    batch,      \* FirecrawlService: scrape_url / scrape_urls_parallel
    cmpCall     \* compare_products endpoint: normalization of one result

\* The other endpoints and helpers, each followed on its own.
VARIABLES
    comparisons, \* comparisons collection: the rows, in insertion order
    cmpReq,      \* compare endpoints: locals of one request
    catalog,     \* products collection with every field of its documents
    createCall,  \* storage calls on Product: locals of each caller
    logRows,     \* processing_logs of a product: timestamps, as inserted
    logCall,     \* update_processing_status: locals of each writer
    statusCall,  \* get_latest_status: what one call returned
    slugCall,    \* generate_product_id: argument and result of one call
    now,         \* datetime.utcnow(), in clock ticks
    progressCall \* the progress rows of one loop iteration

endpoints == <<comparisons, cmpReq, catalog, createCall, logRows, logCall,
               statusCall, slugCall, now, progressCall>>

services == <<gptCall, geminiCall, searchCall, batch, cmpCall, endpoints>>

pipeline == <<products, raw, analysis, log, lastLog, req, resp, runs, nRuns,
              raced>>

vars == <<pipeline, services>>

store == <<products, raw, analysis, log, lastLog>>

RunIds == 1..MaxRuns

Min(a, b) == IF a < b THEN a ELSE b

\* ---------------------------------------------------------------- storage
\* Product.find_one(Product.product_id == product_id): set with 0 or 1 docs.
get_product == products

\* document.insert() by task r into a collection kept per task.
insert(coll, r, doc) == [coll EXCEPT ![r] = Append(@, doc)]

\* update_processing_status up to "await log.insert()": the new row is the
\* newest of the product.
update_processing_status(r, row) ==
    /\ log' = insert(log, r, row)
    /\ lastLog' = r

\* product.status = status; await product.save()
SetStatus(ps, status) == {[p EXCEPT !.status = status] : p \in ps}

\* ProcessingLog(...) document (error: whether an error text is set).
ProcessingLog(stage, status, progress, error) ==
    [stage |-> stage, status |-> status, progress |-> progress,
     error |-> error]

\* AnalysisResult(product_id=..., **analysis_result): fields the payload
\* does not carry take the model's defaults.
NewAnalysis(r, payload) ==
    [f \in Fields \cup {"_id"} |->
        IF f = "_id" THEN <<r>>
        ELSE IF f \in payload.keys THEN payload.basis ELSE Default]

\* for key, value in analysis_result.items(): setattr(existing, key, value)
SetAttrs(existing, payload) ==
    [f \in Fields \cup {"_id"} |->
        IF f \in payload.keys THEN payload.basis ELSE existing[f]]

\* Faulty variant: the base of 20 is left out.
ScrapeProgress_noBase(i, n) == Min((60 * i) \div n, 80)

\* Faulty variant: the share of URLs done is added to the base unscaled and
\* uncapped.
ScrapeProgress_unscaled(i, n) == 20 + ((100 * (i + 1)) \div n)

\* progress = 20 + int((i / len(urls)) * 60); min(progress, 80)
ScrapeProgress(i, n) == Min(20 + ((60 * i) \div n), 80)

\* Faulty variant: the analyze row counts the URL as done.
AnalyzeProgress_wholeStep(i, n) == Min(20 + ((60 * (i + 1)) \div n), 80)

\* progress = 20 + int(((i + 0.5) / len(urls)) * 60); min(progress, 80)
AnalyzeProgress(i, n) == Min(20 + ((60 * (2 * i + 1)) \div (2 * n)), 80)

\* ------------------------------------------------------------------- Init
NoPayload == [keys |-> {}, basis |-> <<>>]

NoRow == [stage |-> "", status |-> "", progress |-> 0, error |-> FALSE]

IdleRun ==
    [pc |-> "idle", urls |-> <<>>, i |-> 0, accumulated_reviews |-> <<>>,
     failed_scrapes |-> 0, content |-> "", analysis_result |-> NoPayload,
     existing |-> {}, row |-> NoRow, raised |-> "none",
     nScrape |-> 0, nAnalyze |-> 0, nSaved |-> 0]

\* No call of GPTService is being followed.
IdleGpt ==
    [pc |-> "idle", caller |-> "", attempt |-> 0, requests |-> 0,
     sleeps |-> <<>>, responses |-> <<>>, nGenerate |-> 0, text |-> <<>>,
     raised |-> ""]

\* No call of GeminiService.analyze_product is being followed.
IdleGemini ==
    [pc |-> "idle", nGenerate |-> 0, nParse |-> 0, text |-> <<>>,
     raised |-> ""]

\* No call of search_product_reviews is being followed.
IdleSearch ==
    [pc |-> "idle", has_organic |-> FALSE, organic |-> <<>>, urls |-> <<>>,
     raised |-> ""]

\* No call of scrape_urls_parallel is being followed.
IdleBatch ==
    [pc |-> "idle", urls |-> <<>>, tasks |-> <<>>, processed_results |-> <<>>]

\* No comparison request is being followed.
IdleCompare ==
    [pc |-> "idle", key_diffs |-> <<>>, key_differences |-> <<>>,
     pros_in |-> <<>>, pros |-> <<>>, quotes_in |-> <<>>, quotes |-> <<>>]

\* No request on the compare endpoints is being followed.
IdleCmpReq ==
    [pc |-> "idle", op |-> "", product_ids |-> <<>>, llm_calls |-> 0,
     comparison_result |->
         [has_winner |-> FALSE, overall_winner |-> "", cell |-> "null"],
     response |-> [code |-> 0, overall_winner |-> "", cell |-> "null"]]

\* The caller is in no storage call.
IdleCreate ==
    [pc |-> "idle", op |-> "", product_name |-> <<>>, metadata |-> "None",
     status |-> "", product_id |-> <<>>, result |-> {}, raised |-> FALSE]

\* The writer is in no call of update_processing_status.
IdleLog == [pc |-> "idle", timestamp |-> 0]

\* No call of get_latest_status is being followed.
IdleStatus == [pc |-> "idle", logs |-> 0]

\* No loop iteration's progress rows are being followed.
IdleProgress ==
    [pc |-> "idle", i |-> 0, n |-> 1, scrape |-> NoRow, analyze |-> NoRow]

\* No call of generate_product_id is being followed.
IdleSlug ==
    [pc |-> "idle", product_name |-> <<>>, product_id |-> <<>>,
     again |-> <<>>]

Init ==
    /\ products = {}
    /\ raw = [r \in RunIds |-> <<>>]
    /\ analysis = {}
    /\ log = [r \in RunIds |-> <<>>]
    /\ lastLog = 0
    /\ req = [c \in Clients |-> "idle"]
    /\ resp = [code |-> 0, status |-> ""]
    /\ runs = [r \in RunIds |-> IdleRun]
    /\ nRuns = 0
    /\ raced = FALSE
    /\ gptCall = IdleGpt
    /\ geminiCall = IdleGemini
    /\ searchCall = IdleSearch
    /\ batch = IdleBatch
    /\ cmpCall = IdleCompare
    /\ comparisons = <<>>
    /\ cmpReq = IdleCmpReq
    /\ catalog = {}
    /\ createCall = [c \in {1, 2} |-> IdleCreate]
    /\ logRows = <<>>
    /\ logCall = [w \in {1, 2} |-> IdleLog]
    /\ statusCall = IdleStatus
    /\ slugCall = IdleSlug
    /\ now = 0
    /\ progressCall = IdleProgress

\* ------------------------------------------------------- create_product
\* POST /products for a name whose slug is the followed product_id.
create_product ==
    /\ products = {}
    /\ products' = {[status |-> "pending"]}
    /\ UNCHANGED <<raw, analysis, log, lastLog, req, resp, runs, nRuns, raced,
                   services>>

\* ------------------------------------------------ POST /{product_id}/analyze
Response(code, status) == [code |-> code, status |-> status]

\* Requests that have passed the status check and not yet written.
Checked == {c \in Clients : req[c] = "checked"}

\* Faulty variant: the "already being processed" return is missing.
AlreadyStatus_skipProcessing(status) ==
    IF status = "completed" THEN "completed" ELSE ""

\* Faulty variant: the "already analyzed" return is missing.
AlreadyStatus_skipCompleted(status) ==
    IF status = "processing" THEN "processing" ELSE ""

\* "Check if already analyzing or completed": the status the handler returns
\* with, or "" when it goes on to start the pipeline.
AlreadyStatus(status) ==
    IF status = "processing" THEN "processing"
    ELSE IF status = "completed" THEN "completed"
    ELSE ""

\* analyze_product up to the await of update_product_status: get_product,
\* the 404 and the two "already" returns.
analyze_product_check(c) ==
    /\ req[c] = "idle"
    /\ UNCHANGED <<store, runs, nRuns, services>>
    /\ IF get_product = {}
       THEN /\ resp' = Response(404, "")
            /\ UNCHANGED <<req, raced>>
       ELSE LET product == CHOOSE p \in get_product : TRUE IN
            IF AlreadyStatus(product.status) # ""
            THEN /\ resp' = Response(202, AlreadyStatus(product.status))
                 /\ UNCHANGED <<req, raced>>
            ELSE /\ nRuns + Cardinality(Checked) < MaxRuns
                 /\ req' = [req EXCEPT ![c] = "checked"]
                 /\ raced' = (raced \/ Checked # {})
                 /\ UNCHANGED resp

\* Faulty variant: the handler schedules the run without writing
\* "processing" first.
analyze_product_start_noStatusWrite(c) ==
    /\ req[c] = "checked"
    /\ nRuns' = nRuns + 1
    /\ runs' = [runs EXCEPT ![nRuns + 1] = [IdleRun EXCEPT !.pc = "log_search"]]
    /\ req' = [req EXCEPT ![c] = "idle"]
    /\ resp' = Response(202, "processing")
    /\ UNCHANGED <<products, raw, analysis, log, lastLog, raced, services>>

\* analyze_product from update_product_status(product_id, "processing") to
\* the return: the status write, background_tasks.add_task, the 202.
analyze_product_start(c) ==
    /\ req[c] = "checked"
    /\ products' = SetStatus(products, "processing")
    /\ nRuns' = nRuns + 1
    /\ runs' = [runs EXCEPT ![nRuns + 1] = [IdleRun EXCEPT !.pc = "log_search"]]
    /\ req' = [req EXCEPT ![c] = "idle"]
    /\ resp' = Response(202, "processing")
    /\ UNCHANGED <<raw, analysis, log, lastLog, raced, services>>

\* --------------------------------------------------- analyze_product_pipeline
\* except Exception as e: the row update_processing_status is called with.
FailedRow == [stage |-> "analyze", status |-> "failed", progress |-> 0,
              error |-> TRUE]

\* scrape_result, content and analysis_result are reassigned by the next
\* iteration and never read after the loop; existing dies with the call of
\* save_analysis_results.
DropLocals(run) ==
    [run EXCEPT !.content = "", !.analysis_result = NoPayload,
         !.existing = {}]

\* Faulty variant: no outer try/except, the exception ends the task.
Raise_uncaught(run, what) ==
    [DropLocals(run) EXCEPT !.raised = what, !.pc = "done"]

\* An exception raised at "what" unwinds to the handler of the outer try.
Raise(run, what) ==
    [DropLocals(run) EXCEPT !.raised = what, !.row = FailedRow,
         !.pc = "term_log"]

\* Faulty variant: any failed URL fails the run.
AfterLoop_failOnAnyFailure(run) ==
    IF run.failed_scrapes > 0
    THEN [run EXCEPT !.pc = "term_log",
              !.row = [stage |-> "scrape", status |-> "failed",
                       progress |-> 0, error |-> TRUE]]
    ELSE [run EXCEPT !.pc = "term_log",
              !.row = [stage |-> "analyze", status |-> "completed",
                       progress |-> 100, error |-> FALSE]]

\* Faulty variant: the "if not accumulated_reviews" test is missing.
AfterLoop_noEmptyCheck(run) ==
    [run EXCEPT !.pc = "term_log",
         !.row = [stage |-> "analyze", status |-> "completed",
                  progress |-> 100, error |-> FALSE]]

\* Faulty variant: the run completes when any URL was extracted at all.
AfterLoop_completedIfAnyScrape(run) ==
    IF run.nScrape = 0
    THEN [run EXCEPT !.pc = "term_log",
              !.row = [stage |-> "scrape", status |-> "failed",
                       progress |-> 0, error |-> TRUE]]
    ELSE [run EXCEPT !.pc = "term_log",
              !.row = [stage |-> "analyze", status |-> "completed",
                       progress |-> 100, error |-> FALSE]]

\* After the loop: "if not accumulated_reviews" chooses the terminal row.
AfterLoop(run) ==
    IF run.accumulated_reviews = <<>>
    THEN [run EXCEPT !.pc = "term_log",
              !.row = [stage |-> "scrape", status |-> "failed",
                       progress |-> 0, error |-> TRUE]]
    ELSE [run EXCEPT !.pc = "term_log",
              !.row = [stage |-> "analyze", status |-> "completed",
                       progress |-> 100, error |-> FALSE]]

\* End of one iteration of "for i, url in enumerate(urls)".
LoopNext(it) ==
    LET run == DropLocals(it) IN
    IF run.i + 1 < Len(run.urls)
    THEN [run EXCEPT !.i = run.i + 1, !.pc = "url_log"]
    ELSE AfterLoop(run)

\* update_processing_status("search", "in_progress", 10)
LogSearch(r) ==
    /\ runs[r].pc = "log_search"
    /\ update_processing_status(r, ProcessingLog("search", "in_progress", 10, FALSE))
    /\ runs' = [runs EXCEPT ![r].pc = "search"]
    /\ UNCHANGED <<products, raw, analysis, req, resp, nRuns, raced,
                   services>>

\* Faulty variant: the "if not urls" test is missing.
AfterSearch_noEmptyCheck(run, urls) ==
    [run EXCEPT !.urls = urls, !.pc = "log_scrape"]

\* "if not urls": the failed search row and return; otherwise on to stage 2.
AfterSearch(run, urls) ==
    IF urls = <<>>
    THEN [run EXCEPT !.pc = "term_log",
              !.row = [stage |-> "search", status |-> "failed",
                       progress |-> 0, error |-> TRUE]]
    ELSE [run EXCEPT !.urls = urls, !.pc = "log_scrape"]

\* urls = await serper_service.search_product_reviews(product_name)
Search(r) ==
    /\ runs[r].pc = "search"
    /\ \/ \E urls \in UrlLists :
            runs' = [runs EXCEPT ![r] = AfterSearch(@, urls)]
       \/ runs' = [runs EXCEPT ![r] = Raise(@, "search")]
    /\ UNCHANGED <<store, req, resp, nRuns, raced,
                   services>>

\* "for i, url in enumerate(urls)": the first iteration, or none.
LoopStart(run) ==
    IF Len(run.urls) > 0
    THEN [run EXCEPT !.i = 0, !.pc = "url_log"]
    ELSE AfterLoop(run)

\* update_processing_status("scrape", "in_progress", 20)
LogScrape(r) ==
    /\ runs[r].pc = "log_scrape"
    /\ update_processing_status(r,
           ProcessingLog("scrape", "in_progress", 20, FALSE))
    /\ runs' = [runs EXCEPT ![r] = LoopStart(@)]
    /\ UNCHANGED <<products, raw, analysis, req, resp, nRuns, raced,
                   services>>

\* Loop head: update_processing_status("scrape", "in_progress", progress)
LogUrl(r) ==
    /\ runs[r].pc = "url_log"
    /\ update_processing_status(r, ProcessingLog("scrape", "in_progress",
                 ScrapeProgress(runs[r].i, Len(runs[r].urls)), FALSE))
    /\ runs' = [runs EXCEPT ![r].pc = "scrape"]
    /\ UNCHANGED <<products, raw, analysis, req, resp, nRuns, raced,
                   services>>

\* What scrape_url returns for url: it catches every exception itself.
ScrapeResults(url) ==
    {[success |-> TRUE, content |-> Content(url)],
     [success |-> TRUE, content |-> ""],
     [success |-> FALSE, content |-> ""]}

\* Faulty variant: the content of a successful scrape is not tested.
Scrape_acceptEmpty(r) ==
    /\ runs[r].pc = "scrape"
    /\ \E scrape_result \in ScrapeResults(runs[r].urls[runs[r].i + 1]) :
         runs' = [runs EXCEPT ![r] =
            IF scrape_result.success
            THEN [@ EXCEPT !.nScrape = @ + 1, !.pc = "save_raw",
                      !.content = scrape_result.content]
            ELSE LoopNext([@ EXCEPT !.nScrape = @ + 1,
                              !.failed_scrapes = @ + 1])]
    /\ UNCHANGED <<store, req, resp, nRuns, raced,
                   services>>

\* scrape_result = await firecrawl_service.scrape_url(url) and the test
\* "if scrape_result.get('success') and scrape_result.get('content')".
Scrape(r) ==
    /\ runs[r].pc = "scrape"
    /\ \E scrape_result \in ScrapeResults(runs[r].urls[runs[r].i + 1]) :
         runs' = [runs EXCEPT ![r] =
            IF scrape_result.success /\ scrape_result.content # ""
            THEN [@ EXCEPT !.nScrape = @ + 1, !.pc = "save_raw",
                      !.content = scrape_result.content]
            ELSE LoopNext([@ EXCEPT !.nScrape = @ + 1,
                              !.failed_scrapes = @ + 1])]
    /\ UNCHANGED <<store, req, resp, nRuns, raced,
                   services>>

\* Faulty variant: the review joins the list without being stored.
SaveRaw_skipInsert(r) ==
    /\ runs[r].pc = "save_raw"
    /\ runs' = [runs EXCEPT ![r].pc = "an_log",
                   ![r].accumulated_reviews = Append(@, runs[r].content)]
    /\ UNCHANGED <<products, raw, analysis, log, lastLog, req, resp, nRuns,
                   raced, services>>

\* Faulty variant: the list is restarted with the new review.
SaveRaw_restartList(r) ==
    /\ runs[r].pc = "save_raw"
    /\ raw' = insert(raw, r, runs[r].content)
    /\ runs' = [runs EXCEPT ![r].pc = "an_log",
                   ![r].accumulated_reviews = <<runs[r].content>>]
    /\ UNCHANGED <<products, analysis, log, lastLog, req, resp, nRuns, raced,
                   services>>

\* save_raw_reviews(product_id, [scrape_result]);
\* accumulated_reviews.append(content)
SaveRaw(r) ==
    /\ runs[r].pc = "save_raw"
    /\ raw' = insert(raw, r, runs[r].content)
    /\ runs' = [runs EXCEPT ![r].pc = "an_log",
                   ![r].accumulated_reviews = Append(@, runs[r].content)]
    /\ UNCHANGED <<products, analysis, log, lastLog, req, resp, nRuns, raced,
                   services>>

\* Faulty variant: the analyzer is given only the newest review.
Payloads_newestOnly(reviews) ==
    {[keys |-> k, basis |-> <<reviews[Len(reviews)]>>] : k \in KeySets}

\* GeminiService.analyze_product(reviews): the parsed JSON object of the
\* LLM, computed from all the reviews it is given.
Payloads(reviews) == {[keys |-> k, basis |-> reviews] : k \in KeySets}

\* update_processing_status("analyze", "in_progress", progress), then
\* analysis_result = await gpt_service.analyze_product(accumulated_reviews):
\* analyze_product calls the LLM client synchronously, so the task does not
\* yield between the return of log.insert() and the find_one of
\* save_analysis_results.
Analyze(r) ==
    /\ runs[r].pc = "an_log"
    /\ update_processing_status(r, ProcessingLog("analyze", "in_progress",
                 AnalyzeProgress(runs[r].i, Len(runs[r].urls)), FALSE))
    /\ \/ \E payload \in Payloads(runs[r].accumulated_reviews) :
            runs' = [runs EXCEPT ![r].nAnalyze = @ + 1,
                         ![r].analysis_result = payload, ![r].pc = "an_find"]
       \/ runs' = [runs EXCEPT ![r] = Raise([@ EXCEPT !.nAnalyze = @ + 1],
                                           "analyze")]
    /\ UNCHANGED <<products, raw, analysis, req, resp, nRuns, raced,
                   services>>

\* save_analysis_results, first await:
\* existing = await AnalysisResult.find_one(product_id == product_id)
FindExisting(r) ==
    /\ runs[r].pc = "an_find"
    /\ runs' = [runs EXCEPT ![r].existing = analysis, ![r].pc = "an_write"]
    /\ UNCHANGED <<store, req, resp, nRuns, raced,
                   services>>

\* Faulty variant: product_id has no unique index, insert() always succeeds.
WriteAnalysis_noUniqueIndex(r) ==
    /\ runs[r].pc = "an_write"
    /\ IF runs[r].existing # {}
       THEN LET existing == CHOOSE d \in runs[r].existing : TRUE
                saved == SetAttrs(existing, runs[r].analysis_result) IN
            /\ analysis' = {d \in analysis : d["_id"] # existing["_id"]}
                              \cup {saved}
            /\ runs' = [runs EXCEPT ![r].pc = "an_status", ![r].nSaved = @ + 1]
       ELSE /\ analysis' = analysis
                              \cup {NewAnalysis(r, runs[r].analysis_result)}
            /\ runs' = [runs EXCEPT ![r].pc = "an_status", ![r].nSaved = @ + 1]
    /\ UNCHANGED <<products, raw, log, lastLog, req, resp, nRuns, raced,
                   services>>

\* save_analysis_results, second await: existing.save() writes the loaded
\* document with the payload's keys set, over the stored document of the same
\* _id; analysis.insert() is refused by the unique index on product_id when
\* a document is already there (DuplicateKeyError, caught by the pipeline).
WriteAnalysis(r) ==
    /\ runs[r].pc = "an_write"
    /\ IF runs[r].existing # {}
       THEN LET existing == CHOOSE d \in runs[r].existing : TRUE
                saved == SetAttrs(existing, runs[r].analysis_result) IN
            /\ analysis' = {d \in analysis : d["_id"] # existing["_id"]}
                              \cup {saved}
            /\ runs' = [runs EXCEPT ![r].pc = "an_status", ![r].nSaved = @ + 1]
       ELSE IF analysis = {}
       THEN /\ analysis' = {NewAnalysis(r, runs[r].analysis_result)}
            /\ runs' = [runs EXCEPT ![r].pc = "an_status", ![r].nSaved = @ + 1]
       ELSE /\ runs' = [runs EXCEPT ![r] = Raise(@, "save")]
            /\ UNCHANGED analysis
    /\ UNCHANGED <<products, raw, log, lastLog, req, resp, nRuns, raced,
                   services>>

\* save_analysis_results, "Update product status": product.status =
\* "completed"; then the loop goes on.
AnalysisStatus(r) ==
    /\ runs[r].pc = "an_status"
    /\ products' = SetStatus(products, "completed")
    /\ runs' = [runs EXCEPT ![r] = LoopNext(@)]
    /\ UNCHANGED <<raw, analysis, log, lastLog, req, resp, nRuns, raced,
                   services>>

\* update_processing_status with a completed or failed status: log.insert()
TermLog(r) ==
    /\ runs[r].pc = "term_log"
    /\ update_processing_status(r, ProcessingLog(runs[r].row.stage,
                 runs[r].row.status, runs[r].row.progress, runs[r].row.error))
    /\ runs' = [runs EXCEPT ![r].pc = "term_status"]
    /\ UNCHANGED <<products, raw, analysis, req, resp, nRuns, raced,
                   services>>

\* Faulty variant: after the terminal row of the try body the task falls
\* into the exception handler, which writes its own row.
TermStatus_intoHandler(r) ==
    /\ runs[r].pc = "term_status"
    /\ products' = SetStatus(products, runs[r].row.status)
    /\ runs' = [runs EXCEPT ![r] =
                   IF @.raised = "none" THEN Raise(@, "handler")
                   ELSE [@ EXCEPT !.pc = "done"]]
    /\ UNCHANGED <<raw, analysis, log, lastLog, req, resp, nRuns, raced,
                   services>>

\* update_processing_status, "if status in ['completed', 'failed']":
\* product.status = status; the pipeline returns.
TermStatus(r) ==
    /\ runs[r].pc = "term_status"
    /\ products' = SetStatus(products, runs[r].row.status)
    /\ runs' = [runs EXCEPT ![r].pc = "done"]
    /\ UNCHANGED <<raw, analysis, log, lastLog, req, resp, nRuns, raced,
                   services>>

\* One step of background task r.
analyze_product_pipeline(r) ==
    \/ LogSearch(r)
    \/ Search(r)
    \/ LogScrape(r)
    \/ LogUrl(r)
    \/ Scrape(r)
    \/ SaveRaw(r)
    \/ Analyze(r)
    \/ FindExisting(r)
    \/ WriteAnalysis(r)
    \/ AnalysisStatus(r)
    \/ TermLog(r)
    \/ TermStatus(r)

Next ==
    \/ create_product
    \/ \E c \in Clients : analyze_product_check(c)
    \/ \E c \in Clients : analyze_product_start(c)
    \/ \E r \in RunIds : analyze_product_pipeline(r)

Spec == Init /\ [][Next]_vars

\* The event loop resumes some background task whose await has completed,
\* and every store or provider call returns or raises.
FairSpec == Spec /\ WF_vars(\E r \in RunIds : analyze_product_pipeline(r))

Last(s) == s[Len(s)]

\* ------------------------------------------------------ LLM response texts
\* A response text is a sequence of tokens: "F" is a "```json" fence opener
\* (with the whitespace after it), "E" a bare "```" fence, "{" and "}" the
\* braces of a JSON object, "t" any other prose.
Tokens == {"F", "E", "{", "}", "t"}

RECURSIVE SeqsUpTo(_, _)
SeqsUpTo(S, n) ==
    IF n = 0 THEN {<<>>}
    ELSE LET shorter == SeqsUpTo(S, n - 1) IN
         shorter \cup {Append(t, x) : t \in {u \in shorter : Len(u) = n - 1},
                                      x \in S}

Texts == SeqsUpTo(Tokens, MaxText)

\* json.loads(text) succeeds: the text is one well-formed JSON object.
JsonLoads(text) == text = <<"{", "}">>

\* re.search(r'\{.*\}', text, re.DOTALL): from the first "{" to the last "}"
\* after it, or no match (the text itself is kept).
GreedyBraces(text) ==
    LET opens == {i \in 1..Len(text) : text[i] = "{"}
        first == CHOOSE i \in opens : \A j \in opens : i <= j
        closes == {j \in 1..Len(text) : text[j] = "}" /\ j > first}
        last == CHOOSE j \in closes : \A k \in closes : k <= j
    IN  IF opens = {} \/ closes = {} THEN text
        ELSE SubSeq(text, first, last)

IsFence(tok) == tok \in {"F", "E"}

\* GeminiService.analyze_product, cleanup after the first JSONDecodeError:
\* re.sub(r'```json\s*', '', .), re.sub(r'```\s*$', '', .), then the greedy
\* brace match.
GeminiClean(text) ==
    LET noOpeners == SelectSeq(text, LAMBDA tok : tok # "F")
        noTrailer == IF noOpeners # <<>> /\ Last(noOpeners) = "E"
                     THEN SubSeq(noOpeners, 1, Len(noOpeners) - 1)
                     ELSE noOpeners
    IN  GreedyBraces(noTrailer)

\* GPTService._extract_json_from_response: the first fenced block
\* ```(json)? { ... } ``` (lazy up to the first "}" that a fence follows), if
\* any, then the greedy brace match.
GptExtract(text) ==
    LET blocks == {<<i, j>> \in (1..Len(text)) \X (1..Len(text)) :
                      /\ IsFence(text[i])
                      /\ i + 1 < j
                      /\ text[i + 1] = "{"
                      /\ text[j] = "}"
                      /\ j + 1 <= Len(text)
                      /\ IsFence(text[j + 1])}
        b == CHOOSE x \in blocks :
                 \A y \in blocks :
                     x[1] < y[1] \/ (x[1] = y[1] /\ x[2] <= y[2])
    IN  GreedyBraces(IF blocks = {} THEN text ELSE SubSeq(text, b[1] + 1, b[2]))

\* ------------------------------------------------------------- GPTService
max_retries == 3

retry_delay == 2

\* What one client.post can come to: an HTTP response (status 200 with or
\* without "choices"), httpx.TimeoutException or another httpx.RequestError.
Failures ==
      {[kind |-> "http", code |-> c, choices |-> FALSE] :
            c \in {200, 400, 429, 500}}
 \cup {[kind |-> "timeout", code |-> 0, choices |-> FALSE],
       [kind |-> "request_error", code |-> 0, choices |-> FALSE]}

Success == [kind |-> "http", code |-> 200, choices |-> TRUE]

\* Faulty variant: server errors and rate limiting are not retried.
Retried_never(attempt) == FALSE

\* Faulty variant: the last attempt sleeps and continues like the others.
Retried_always(attempt) == TRUE

\* "if attempt < max_retries - 1": sleep and continue, else raise.
Retried(attempt) == attempt < max_retries - 1

\* wait_time = retry_delay * (attempt + 1)
wait_time(attempt) == retry_delay * (attempt + 1)

\* The call is done; the caller or a later caller may make another one.
LlmFree == gptCall.pc = "idle" /\ geminiCall.pc = "idle"

\* A caller enters generate_response (directly, as compare_products does, or
\* from analyze_product): "for attempt in range(max_retries)" begins.
generate_response_start ==
    /\ LlmFree
    /\ \E caller \in {"generate_response", "analyze_product"} :
         gptCall' = [IdleGpt EXCEPT !.pc = "post", !.caller = caller,
                        !.nGenerate = 1]
    /\ UNCHANGED <<pipeline, endpoints, geminiCall, searchCall, batch, cmpCall>>

\* The failure branch of one attempt.  Every raise inside the try (the
\* ValueError of a 200 without choices, the HTTPException of a status that is
\* not 200) is caught by "except Exception" of the same try, which sleeps and
\* continues while attempts are left.
AfterFailure(call, outcome) ==
    LET seen == [call EXCEPT !.requests = @ + 1,
                     !.responses = Append(@, outcome)] IN
    IF Retried(call.attempt)
    THEN [seen EXCEPT !.pc = "sleep",
              !.sleeps = Append(@, wait_time(call.attempt))]
    ELSE [seen EXCEPT !.pc = "raised",
              !.raised = IF outcome.kind = "http" /\ outcome.code = 200
                         THEN "ValueError" ELSE "HTTPException"]

\* response = await client.post(...) and everything up to the next await,
\* return or raise.
generate_response_post ==
    /\ gptCall.pc = "post"
    /\ \/ \E text \in Texts :
            gptCall' = [gptCall EXCEPT !.requests = @ + 1,
                            !.responses = Append(@, Success),
                            !.text = text, !.pc = "content"]
       \/ \E outcome \in Failures :
            gptCall' = AfterFailure(gptCall, outcome)
    /\ UNCHANGED <<pipeline, endpoints, geminiCall, searchCall, batch, cmpCall>>

\* await asyncio.sleep(wait_time); continue: the next attempt of "for
\* attempt in range(max_retries)", or the end of the loop and of the
\* function, which then returns None.
generate_response_sleep ==
    /\ gptCall.pc = "sleep"
    /\ gptCall' = IF gptCall.attempt + 1 < max_retries
                  THEN [gptCall EXCEPT !.attempt = @ + 1, !.pc = "post"]
                  ELSE [gptCall EXCEPT !.pc = "none"]
    /\ UNCHANGED <<pipeline, endpoints, geminiCall, searchCall, batch, cmpCall>>

\* GPTService.analyze_product after "full_response = await
\* self.generate_response(prompt)": _extract_json_from_response.
gpt_analyze_product ==
    /\ gptCall.pc = "content"
    /\ gptCall.caller = "analyze_product"
    /\ gptCall' =
         IF JsonLoads(GptExtract(gptCall.text))
         THEN [gptCall EXCEPT !.pc = "payload"]
         ELSE [gptCall EXCEPT !.pc = "raised", !.raised = "ValueError"]
    /\ UNCHANGED <<pipeline, endpoints, geminiCall, searchCall, batch, cmpCall>>

\* The call has returned or raised to its caller.
GptFinished ==
    \/ gptCall.pc \in {"payload", "raised", "none"}
    \/ gptCall.pc = "content" /\ gptCall.caller = "generate_response"

gpt_return ==
    /\ GptFinished
    /\ gptCall' = IdleGpt
    /\ UNCHANGED <<pipeline, endpoints, geminiCall, searchCall, batch, cmpCall>>

\* ---------------------------------------------- GeminiService.analyze_product
gemini_analyze_product_start ==
    /\ LlmFree
    /\ geminiCall' = [IdleGemini EXCEPT !.pc = "generate"]
    /\ UNCHANGED <<pipeline, endpoints, gptCall, searchCall, batch, cmpCall>>

\* response = self.client.models.generate_content(...): the client raises, or
\* answers with a text ("if response.text" fails on an empty one).
gemini_generate_content ==
    /\ geminiCall.pc = "generate"
    /\ \/ \E text \in Texts :
            geminiCall' =
                IF text = <<>>
                THEN [geminiCall EXCEPT !.nGenerate = @ + 1,
                          !.pc = "raised", !.raised = "empty"]
                ELSE [geminiCall EXCEPT !.nGenerate = @ + 1,
                          !.text = text, !.pc = "parse"]
       \/ geminiCall' = [geminiCall EXCEPT !.nGenerate = @ + 1,
                             !.pc = "raised", !.raised = "client"]
    /\ UNCHANGED <<pipeline, endpoints, gptCall, searchCall, batch, cmpCall>>

\* Faulty variant: a text that does not parse is asked for again.
AfterDecodeError_regenerate(call) ==
    [call EXCEPT !.nParse = @ + 1, !.pc = "generate"]

\* except json.JSONDecodeError: on to the cleanup.
AfterDecodeError(call) == [call EXCEPT !.nParse = @ + 1, !.pc = "cleanup"]

\* analysis_result = json.loads(response.text)
gemini_parse ==
    /\ geminiCall.pc = "parse"
    /\ geminiCall' =
         IF JsonLoads(geminiCall.text)
         THEN [geminiCall EXCEPT !.nParse = @ + 1, !.pc = "payload"]
         ELSE AfterDecodeError(geminiCall)
    /\ UNCHANGED <<pipeline, endpoints, gptCall, searchCall, batch, cmpCall>>

\* analysis_result = json.loads(cleaned_text), or the final raise.
gemini_cleanup ==
    /\ geminiCall.pc = "cleanup"
    /\ geminiCall' =
         IF JsonLoads(GeminiClean(geminiCall.text))
         THEN [geminiCall EXCEPT !.nParse = @ + 1, !.pc = "payload",
                   !.text = GeminiClean(geminiCall.text)]
         ELSE [geminiCall EXCEPT !.nParse = @ + 1, !.pc = "raised",
                   !.raised = "parse"]
    /\ UNCHANGED <<pipeline, endpoints, gptCall, searchCall, batch, cmpCall>>

gemini_return ==
    /\ geminiCall.pc \in {"payload", "raised"}
    /\ geminiCall' = IdleGemini
    /\ UNCHANGED <<pipeline, endpoints, gptCall, searchCall, batch, cmpCall>>

LlmNext ==
    \/ generate_response_start
    \/ generate_response_post
    \/ generate_response_sleep
    \/ gpt_analyze_product
    \/ gpt_return
    \/ gemini_analyze_product_start
    \/ gemini_generate_content
    \/ gemini_parse
    \/ gemini_cleanup
    \/ gemini_return

\* Calls of the two LLM services, one at a time.
LlmSpec == Init /\ [][LlmNext]_vars

\* ---------------------------------- SerperService.search_product_reviews
\* result.get("link", "") of an organic result: a URL, or "" when the result
\* has no link.
Links == {"u1", "u2", "u3", ""}

\* data["organic"] of a 200 response.
OrganicLists == SeqsUpTo(Links, MaxOrganic)

\* Faulty variant: the first result is not skipped.
Slice_fromFirst(organic_results) ==
    SubSeq(organic_results, 1, Min(2, Len(organic_results)))

\* organic_results[1:3]
Slice(organic_results) ==
    SubSeq(organic_results, 2, Min(3, Len(organic_results)))

\* "if len(organic_results) > 1": the links of organic_results[1:3] that
\* are not empty; otherwise no URL.
ExtractUrls(organic_results) ==
    IF Len(organic_results) > 1
    THEN SelectSeq(Slice(organic_results), LAMBDA link : link # "")
    ELSE <<>>

search_product_reviews_start ==
    /\ searchCall.pc = "idle"
    /\ searchCall' = [searchCall EXCEPT !.pc = "post"]
    /\ UNCHANGED <<pipeline, endpoints, gptCall, geminiCall, batch, cmpCall>>

\* session.post(...): a status other than 200 or a client error raises; a
\* 200 response has an "organic" list or none.
search_product_reviews_response ==
    /\ searchCall.pc = "post"
    /\ \/ \E organic \in OrganicLists :
            searchCall' = [searchCall EXCEPT !.pc = "returned",
                               !.has_organic = TRUE, !.organic = organic,
                               !.urls = ExtractUrls(organic)]
       \/ searchCall' = [searchCall EXCEPT !.pc = "returned"]
       \/ \E e \in {"status", "network"} :
            searchCall' = [searchCall EXCEPT !.pc = "raised", !.raised = e]
    /\ UNCHANGED <<pipeline, endpoints, gptCall, geminiCall, batch, cmpCall>>

search_product_reviews_return ==
    /\ searchCall.pc \in {"returned", "raised"}
    /\ searchCall' = IdleSearch
    /\ UNCHANGED <<pipeline, endpoints, gptCall, geminiCall, batch, cmpCall>>

SearchNext ==
    \/ search_product_reviews_start
    \/ search_product_reviews_response
    \/ search_product_reviews_return

\* Calls of the discovery service, one at a time.
SearchSpec == Init /\ [][SearchNext]_vars

\* ------------------------------------------------------- FirecrawlService
\* settings.MAX_CONCURRENT_SCRAPERS
max_concurrent == 4

\* What the POST of scrape_url can come to: a status other than 200, a 200
\* whose body has success false, a 200 success body without markdown or with
\* markdown (under data or at top level), or an exception
\* (asyncio.TimeoutError or any other).
Responses ==
    {"http_error", "provider_failure", "no_markdown", "markdown", "exception"}

\* Markdown the provider extracted from URL number u.
Markdown(u) == <<"md", u>>

\* The dict scrape_url returns for a URL and a provider response.
scrape_url(url, response) ==
    IF response = "http_error"
    THEN [url |-> url, success |-> FALSE, error |-> "HTTP", content |-> <<>>]
    ELSE IF response = "provider_failure"
    THEN [url |-> url, success |-> FALSE, error |-> "Firecrawl error",
          content |-> <<>>]
    ELSE IF response = "exception"
    THEN [url |-> url, success |-> FALSE, error |-> "str(e)",
          content |-> <<>>]
    ELSE [url |-> url, success |-> TRUE, error |-> "",
          content |-> IF response = "markdown" THEN Markdown(url) ELSE <<>>]

\* The dict scrape_urls_parallel builds for a task that raised.
FailureShaped(url) ==
    [url |-> url, success |-> FALSE, error |-> "str(result)",
     content |-> <<>>]

\* Input lists of scrape_urls_parallel: n distinct URLs, in either order.
UrlInputs ==
    UNION {{[i \in 1..n |-> i], [i \in 1..n |-> n + 1 - i]} : n \in 0..MaxUrls}

Scraping(tasks) == {i \in 1..Len(tasks) : tasks[i].pc = "scraping"}

\* Faulty variant: no semaphore, every task goes straight to scrape_url.
CanAcquire_unbounded(tasks, i) == tasks[i].pc = "waiting"

\* "async with semaphore": a task enters when a slot is free and no task
\* created before it is still waiting (asyncio wakes waiters in order).
CanAcquire(tasks, i) ==
    /\ tasks[i].pc = "waiting"
    /\ Cardinality(Scraping(tasks)) < max_concurrent
    /\ \A j \in 1..(i - 1) : tasks[j].pc # "waiting"

\* tasks = [scrape_with_semaphore(url) for url in urls];
\* asyncio.gather(*tasks, return_exceptions=True) schedules them.
scrape_urls_parallel_start ==
    /\ batch.pc = "idle"
    /\ \E urls \in UrlInputs :
         batch' = [batch EXCEPT !.pc = "gather", !.urls = urls,
                       !.tasks = [i \in 1..Len(urls) |->
                                    [pc |-> "waiting", response |-> ""]]]
    /\ UNCHANGED <<pipeline, endpoints, gptCall, geminiCall, searchCall, cmpCall>>

\* Task i passes "async with semaphore" and calls scrape_url.
scrape_with_semaphore_enter(i) ==
    /\ batch.pc = "gather"
    /\ i \in 1..Len(batch.tasks)
    /\ CanAcquire(batch.tasks, i)
    /\ batch' = [batch EXCEPT !.tasks[i].pc = "scraping"]
    /\ UNCHANGED <<pipeline, endpoints, gptCall, geminiCall, searchCall, cmpCall>>

\* scrape_url of task i returns its dict, or the task raises; the semaphore
\* is released either way.
scrape_with_semaphore_exit(i) ==
    /\ batch.pc = "gather"
    /\ i \in 1..Len(batch.tasks)
    /\ batch.tasks[i].pc = "scraping"
    /\ \/ \E response \in Responses :
            batch' = [batch EXCEPT !.tasks[i] =
                         [pc |-> "done", response |-> response]]
       \/ batch' = [batch EXCEPT !.tasks[i] =
                         [pc |-> "raised", response |-> ""]]
    /\ UNCHANGED <<pipeline, endpoints, gptCall, geminiCall, searchCall, cmpCall>>

\* Faulty variant: results of tasks that raised are left out.
ProcessedResults_dropRaised(urls, tasks) ==
    LET all == [i \in 1..Len(urls) |->
                   IF tasks[i].pc = "raised" THEN FailureShaped(urls[i])
                   ELSE scrape_url(urls[i], tasks[i].response)] IN
    SelectSeq(all, LAMBDA res : res.error # "str(result)")

\* "for i, result in enumerate(results)": an exception becomes a
\* failure-shaped dict, a dict is kept.
ProcessedResults(urls, tasks) ==
    [i \in 1..Len(urls) |->
        IF tasks[i].pc = "raised" THEN FailureShaped(urls[i])
        ELSE scrape_url(urls[i], tasks[i].response)]

\* gather returns once every task has finished; processed_results is built
\* and returned.
scrape_urls_parallel_gather ==
    /\ batch.pc = "gather"
    /\ \A i \in 1..Len(batch.tasks) : batch.tasks[i].pc \in {"done", "raised"}
    /\ batch' = [batch EXCEPT !.pc = "returned",
                     !.processed_results =
                         ProcessedResults(batch.urls, batch.tasks)]
    /\ UNCHANGED <<pipeline, endpoints, gptCall, geminiCall, searchCall, cmpCall>>

scrape_urls_parallel_return ==
    /\ batch.pc = "returned"
    /\ batch' = IdleBatch
    /\ UNCHANGED <<pipeline, endpoints, gptCall, geminiCall, searchCall, cmpCall>>

\* One step of a task of the batch.
scrape_with_semaphore(i) ==
    \/ scrape_with_semaphore_enter(i)
    \/ scrape_with_semaphore_exit(i)

ScrapeNext ==
    \/ scrape_urls_parallel_start
    \/ \E i \in 1..MaxUrls : scrape_with_semaphore(i)
    \/ scrape_urls_parallel_gather
    \/ scrape_urls_parallel_return

\* Batches of the extraction service, one at a time.
ScrapeSpec == Init /\ [][ScrapeNext]_vars

\* The event loop runs some task that can run, every POST returns or raises,
\* and gather returns when its tasks have finished.
FairScrapeSpec ==
    /\ ScrapeSpec
    /\ WF_vars(\E i \in 1..MaxUrls : scrape_with_semaphore(i))
    /\ WF_vars(scrape_urls_parallel_gather)

\* ------------------------------------------- compare_products (compare.py)
\* An entry of comparison_result["key_differences"]: a plain string, a dict
\* with a "difference" field, or a dict without one.
DiffEntries ==
    {[kind |-> "str", value |-> "Y", has_difference |-> FALSE],
     [kind |-> "dict", value |-> "X", has_difference |-> TRUE],
     [kind |-> "dict", value |-> "W", has_difference |-> FALSE]}

KeyDiffLists == SeqsUpTo(DiffEntries, MaxDiffs)

\* A plain string.
Str(value) == [kind |-> "str", value |-> value, has_difference |-> FALSE]

\* str(diff) of a dict.
StrOf(diff) == Str("{" \o diff.value \o "}")

\* diff.get("difference", str(diff)) if isinstance(diff, dict) else diff
NormalizeEntry(diff) ==
    IF diff.kind = "dict"
    THEN IF diff.has_difference THEN Str(diff.value) ELSE StrOf(diff)
    ELSE diff

\* "if key_diffs and isinstance(key_diffs[0], dict)": the list is rewritten
\* only when its first entry is a dict.
NormalizeKeyDifferences(key_diffs) ==
    IF key_diffs # <<>> /\ key_diffs[1].kind = "dict"
    THEN [i \in 1..Len(key_diffs) |-> NormalizeEntry(key_diffs[i])]
    ELSE key_diffs

\* An entry of a pros or cons list of pros_cons, or of a quotes list of
\* feature_comparison: a plain string, a dict with a "quote" field, or a dict
\* without one.
QuoteEntries ==
    {[kind |-> "str", value |-> "Y", has_quote |-> FALSE],
     [kind |-> "dict", value |-> "X", has_quote |-> TRUE],
     [kind |-> "dict", value |-> "W", has_quote |-> FALSE]}

QuoteLists == SeqsUpTo(QuoteEntries, MaxQuotes)

\* A plain string, as an entry of a quote list.
QuoteStr(value) == [kind |-> "str", value |-> value, has_quote |-> FALSE]

\* item.get("quote", str(item)) if isinstance(item, dict) else item
NormalizeQuote(item) ==
    IF item.kind = "dict"
    THEN IF item.has_quote THEN QuoteStr(item.value)
         ELSE QuoteStr("{" \o item.value \o "}")
    ELSE item

\* "if isinstance(product_data[key][0], dict)" and "if quotes and
\* isinstance(quotes[0], dict)": a pros, cons or quotes list is rewritten
\* only when its first entry is a dict.
NormalizeQuotes(quotes) ==
    IF quotes # <<>> /\ quotes[1].kind = "dict"
    THEN [i \in 1..Len(quotes) |-> NormalizeQuote(quotes[i])]
    ELSE quotes

\* comparison_result = await gpt_service.compare_products(products_data):
\* the parsed JSON of the LLM, with a key_differences list, the pros list of
\* a product in pros_cons and the quotes list of a feature in
\* feature_comparison.
compare_products_result ==
    /\ cmpCall.pc = "idle"
    /\ \E key_diffs \in KeyDiffLists, pros \in QuoteLists,
          quotes \in QuoteLists :
         cmpCall' = [cmpCall EXCEPT !.pc = "result",
                         !.key_diffs = key_diffs,
                         !.pros_in = pros, !.quotes_in = quotes]
    /\ UNCHANGED <<pipeline, endpoints, gptCall, geminiCall, searchCall, batch>>

\* "Transform key_differences if it comes as dictionaries instead of
\* strings", then pros_cons and the quotes of feature_comparison, up to the
\* await of save_comparison.
compare_products_normalize ==
    /\ cmpCall.pc = "result"
    /\ cmpCall' = [cmpCall EXCEPT !.pc = "normalized",
                       !.key_differences =
                           NormalizeKeyDifferences(cmpCall.key_diffs),
                       !.pros = NormalizeQuotes(cmpCall.pros_in),
                       !.quotes = NormalizeQuotes(cmpCall.quotes_in)]
    /\ UNCHANGED <<pipeline, endpoints, gptCall, geminiCall, searchCall, batch>>

compare_products_return ==
    /\ cmpCall.pc = "normalized"
    /\ cmpCall' = IdleCompare
    /\ UNCHANGED <<pipeline, endpoints, gptCall, geminiCall, searchCall, batch>>

CompareNext ==
    \/ compare_products_result
    \/ compare_products_normalize
    \/ compare_products_return

\* Comparison requests, one at a time.
CompareSpec == Init /\ [][CompareNext]_vars

\* ------------------------------ POST /compare and GET /compare/{comparison_id}
\* The model follows one comparison_id, the first one save_comparison
\* creates, against a fixed store: products p1 and p2 are analysed, pa has a
\* Product and no AnalysisResult, px has no Product.
ProductIds == {"p1", "p2", "pa", "px"}

StoredProducts == {"p1", "p2", "pa"}

StoredAnalyses == {"p1", "p2"}

\* request.product_ids
IdLists == SeqsUpTo(ProductIds, MaxIds)

\* A cell of comparison_matrix: null or a score.
Cells == {"null", "0.0", "7.5"}

\* What the LLM's comparison result carries: an overall_winner or none, and
\* the followed cell of comparison_matrix.
ComparisonResults ==
    {[has_winner |-> TRUE, overall_winner |-> w, cell |-> c] :
        w \in StoredAnalyses, c \in Cells}
    \cup {[has_winner |-> FALSE, overall_winner |-> "", cell |-> c] :
            c \in Cells}

NoResponse == [code |-> 0, overall_winner |-> "", cell |-> "null"]

\* CompareRequest: product_ids has min_length 2 and max_length 4.
CompareRequestValid(product_ids) ==
    Len(product_ids) >= 2 /\ Len(product_ids) <= 4

\* Faulty variant: the analysis of a product is not looked up.
Rejection_noAnalysisCheck(product_ids) ==
    IF ~CompareRequestValid(product_ids) THEN 422
    ELSE IF Len(product_ids) < 2 \/ Len(product_ids) > 4 THEN 400
    ELSE IF \E i \in 1..Len(product_ids) : product_ids[i] \notin StoredProducts
    THEN 404
    ELSE 0

\* The status the request is rejected with, or 0: the validation of the
\* request body, then in compare_products the count test and for each id
\* get_product and get_product_analysis.
Rejection(product_ids) ==
    IF ~CompareRequestValid(product_ids) THEN 422
    ELSE IF Len(product_ids) < 2 \/ Len(product_ids) > 4 THEN 400
    ELSE IF \E i \in 1..Len(product_ids) :
                \/ product_ids[i] \notin StoredProducts
                \/ product_ids[i] \notin StoredAnalyses
    THEN 404
    ELSE 0

\* Comparison(comparison_id=..., **comparison_result): overall_winner takes
\* the model's default "" when the result has none.
Comparison(product_ids, comparison_result) ==
    [compared_products |-> product_ids,
     overall_winner |-> IF comparison_result.has_winner
                        THEN comparison_result.overall_winner ELSE "",
     cell |-> comparison_result.cell]

\* Faulty variant: a null cell is presented as it is stored.
CleanCell_identity(score) == score

\* score if score is not None else 0.0
CleanCell(score) == IF score = "null" THEN "0.0" ELSE score

\* A POST /compare arrives.
compare_products_request ==
    /\ cmpReq.pc = "idle"
    /\ comparisons = <<>>
    /\ \E product_ids \in IdLists :
         cmpReq' = [cmpReq EXCEPT !.pc = "validate", !.op = "compare",
                        !.product_ids = product_ids]
    /\ UNCHANGED <<pipeline, gptCall, geminiCall, searchCall, batch, cmpCall,
                   comparisons, catalog, createCall, logRows, logCall,
                   statusCall, slugCall, now, progressCall>>

\* The count test and the loop "for product_id in product_ids".
compare_products_validate ==
    /\ cmpReq.pc = "validate"
    /\ cmpReq' =
         IF Rejection(cmpReq.product_ids) # 0
         THEN [cmpReq EXCEPT !.pc = "responded",
                   !.response = [NoResponse EXCEPT
                                    !.code = Rejection(cmpReq.product_ids)]]
         ELSE [cmpReq EXCEPT !.pc = "llm"]
    /\ UNCHANGED <<pipeline, gptCall, geminiCall, searchCall, batch, cmpCall,
                   comparisons, catalog, createCall, logRows, logCall,
                   statusCall, slugCall, now, progressCall>>

\* comparison_result = await gpt_service.compare_products(products_data), or
\* the HTTPException(500) of its except clause.
compare_products_llm ==
    /\ cmpReq.pc = "llm"
    /\ \/ \E comparison_result \in ComparisonResults :
            cmpReq' = [cmpReq EXCEPT !.pc = "save", !.llm_calls = @ + 1,
                           !.comparison_result = comparison_result]
       \/ cmpReq' = [cmpReq EXCEPT !.pc = "responded", !.llm_calls = @ + 1,
                         !.response = [NoResponse EXCEPT !.code = 500]]
    /\ UNCHANGED <<pipeline, gptCall, geminiCall, searchCall, batch, cmpCall,
                   comparisons, catalog, createCall, logRows, logCall,
                   statusCall, slugCall, now, progressCall>>

\* comparison_id = await storage_service.save_comparison(comparison_result)
compare_products_save ==
    /\ cmpReq.pc = "save"
    /\ comparisons' = Append(comparisons,
           Comparison(cmpReq.product_ids, cmpReq.comparison_result))
    /\ cmpReq' = [cmpReq EXCEPT !.pc = "respond"]
    /\ UNCHANGED <<pipeline, gptCall, geminiCall, searchCall, batch, cmpCall,
                   catalog, createCall, logRows, logCall, statusCall,
                   slugCall, now, progressCall>>

\* saved_comparison = await storage_service.get_comparison(comparison_id);
\* the matrix is cleaned and ComparisonResponse is built from
\* comparison_result.
compare_products_respond ==
    /\ cmpReq.pc = "respond"
    /\ cmpReq' = [cmpReq EXCEPT !.pc = "responded",
          !.response =
              [code |-> 201,
               overall_winner |->
                   IF cmpReq.comparison_result.has_winner
                   THEN cmpReq.comparison_result.overall_winner
                   ELSE cmpReq.product_ids[1],
               cell |-> CleanCell(cmpReq.comparison_result.cell)]]
    /\ UNCHANGED <<pipeline, gptCall, geminiCall, searchCall, batch, cmpCall,
                   comparisons, catalog, createCall, logRows, logCall,
                   statusCall, slugCall, now, progressCall>>

\* GET /compare/{comparison_id} for the followed id: 404, or the stored row
\* with its matrix cleaned.
get_comparison ==
    /\ cmpReq.pc = "idle"
    /\ cmpReq' =
         IF comparisons = <<>>
         THEN [cmpReq EXCEPT !.pc = "responded", !.op = "get",
                   !.response = [NoResponse EXCEPT !.code = 404]]
         ELSE [cmpReq EXCEPT !.pc = "responded", !.op = "get",
                   !.response =
                       [code |-> 200,
                        overall_winner |-> comparisons[1].overall_winner,
                        cell |-> CleanCell(comparisons[1].cell)]]
    /\ UNCHANGED <<pipeline, gptCall, geminiCall, searchCall, batch, cmpCall,
                   comparisons, catalog, createCall, logRows, logCall,
                   statusCall, slugCall, now, progressCall>>

\* The response has been sent.
compare_return ==
    /\ cmpReq.pc = "responded"
    /\ cmpReq' = IdleCmpReq
    /\ UNCHANGED <<pipeline, gptCall, geminiCall, searchCall, batch, cmpCall,
                   comparisons, catalog, createCall, logRows, logCall,
                   statusCall, slugCall, now, progressCall>>

ComparisonNext ==
    \/ compare_products_request
    \/ compare_products_validate
    \/ compare_products_llm
    \/ compare_products_save
    \/ compare_products_respond
    \/ get_comparison
    \/ compare_return

\* Requests on the compare endpoints, one at a time.
ComparisonSpec == Init /\ [][ComparisonNext]_vars

\* --------------------------------------------------- generate_product_id
\* A product name is a sequence of characters, one of each kind the function
\* tells apart: a lowercase letter, its uppercase, a digit, a hyphen and a
\* character that is none of these.
Chars == {"a", "A", "7", "-", " "}

Names == SeqsUpTo(Chars, MaxName)

\* [a-z0-9]
AlphaNum == {"a", "7"}

\* product_name.lower()
Lower(s) == [i \in 1..Len(s) |-> IF s[i] = "A" THEN "a" ELSE s[i]]

RECURSIVE DropWhile(_, _)
\* s without its longest prefix of characters of the class.
DropWhile(s, class) ==
    IF s # <<>> /\ Head(s) \in class THEN DropWhile(Tail(s), class) ELSE s

RECURSIVE Sub(_, _)
\* re.sub(r'[class]+', '-', s): every maximal run of characters of the
\* class becomes one hyphen.
Sub(s, class) ==
    IF s = <<>> THEN <<>>
    ELSE IF Head(s) \in class
    THEN <<"-">> \o Sub(DropWhile(Tail(s), class), class)
    ELSE <<Head(s)>> \o Sub(Tail(s), class)

RECURSIVE RStrip(_)
RStrip(s) ==
    IF s # <<>> /\ s[Len(s)] = "-" THEN RStrip(SubSeq(s, 1, Len(s) - 1))
    ELSE s

\* Faulty variant: only leading hyphens are removed.
Strip_leadingOnly(s) == DropWhile(s, {"-"})

\* s.strip('-')
Strip(s) == RStrip(DropWhile(s, {"-"}))

generate_product_id(product_name) ==
    Sub(Strip(Sub(Lower(product_name), Chars \ AlphaNum)), {"-"})

\* generate_product_id(product_name) is called.
generate_product_id_call ==
    /\ slugCall.pc = "idle"
    /\ \E product_name \in Names :
         slugCall' = [slugCall EXCEPT !.pc = "called",
                          !.product_name = product_name,
                          !.product_id = generate_product_id(product_name)]
    /\ UNCHANGED <<pipeline, gptCall, geminiCall, searchCall, batch, cmpCall,
                   comparisons, cmpReq, catalog, createCall, logRows,
                   logCall, logCall, statusCall, now, progressCall>>

\* The result is passed to generate_product_id again.
generate_product_id_again ==
    /\ slugCall.pc = "called"
    /\ slugCall' = [slugCall EXCEPT !.pc = "done",
                        !.again = generate_product_id(slugCall.product_id)]
    /\ UNCHANGED <<pipeline, gptCall, geminiCall, searchCall, batch, cmpCall,
                   comparisons, cmpReq, catalog, createCall, logRows,
                   logCall, logCall, statusCall, now, progressCall>>

generate_product_id_return ==
    /\ slugCall.pc = "done"
    /\ slugCall' = IdleSlug
    /\ UNCHANGED <<pipeline, gptCall, geminiCall, searchCall, batch, cmpCall,
                   comparisons, cmpReq, catalog, createCall, logRows,
                   logCall, logCall, statusCall, now, progressCall>>

SlugNext ==
    \/ generate_product_id_call
    \/ generate_product_id_again
    \/ generate_product_id_return

\* Calls of generate_product_id, one at a time.
SlugSpec == Init /\ [][SlugNext]_vars

\* ------------------------------------- the products collection, field by field
\* Coroutines calling the storage service at the same time.
Callers == {1, 2}

\* Product names of the calls: two names of the followed slug.
CatalogNames == {<<"A", " ", "7">>, <<"a", "-", "7">>}

\* metadata arguments of create_product.
Metadatas == {"None", "m1"}

\* status arguments of the status writers.
WrittenStatuses == {"processing", "completed", "failed"}

\* The clock advances.
tick ==
    /\ now < MaxClock
    /\ now' = now + 1
    /\ UNCHANGED <<pipeline, gptCall, geminiCall, searchCall, batch, cmpCall,
                   comparisons, cmpReq, catalog, createCall, logRows,
                   logCall, logCall, statusCall, slugCall, progressCall>>

\* Product.find_one(Product.product_id == product_id)
FindProduct(docs, product_id) == {d \in docs : d.product_id = product_id}

\* Product(product_id=..., product_name=..., created_at=datetime.utcnow(),
\* status="pending", metadata=metadata or {}, processing_stats={})
Product(product_id, product_name, metadata, created_at) ==
    [product_id |-> product_id, product_name |-> product_name,
     created_at |-> created_at, status |-> "pending",
     metadata |-> IF metadata = "None" THEN "{}" ELSE metadata,
     processing_stats |-> "{}"]

\* storage_service.create_product(product_name, metadata) is called.
create_product_call(c) ==
    /\ createCall[c].pc = "idle"
    /\ \E product_name \in CatalogNames, metadata \in Metadatas :
         createCall' = [createCall EXCEPT ![c] =
             [@ EXCEPT !.pc = "find", !.op = "create",
                  !.product_name = product_name, !.metadata = metadata,
                  !.product_id = generate_product_id(product_name)]]
    /\ UNCHANGED <<pipeline, gptCall, geminiCall, searchCall, batch, cmpCall,
                   comparisons, cmpReq, catalog, logRows, logCall,
                   statusCall, slugCall, now, progressCall>>

\* Faulty variant: an existing product takes the name and metadata of the
\* call.
create_product_find_overwrite(c) ==
    /\ createCall[c].pc = "find"
    /\ createCall[c].op = "create"
    /\ LET existing == FindProduct(catalog, createCall[c].product_id)
           updated == {[d EXCEPT !.product_name = createCall[c].product_name]
                          : d \in existing}
       IN  IF existing # {}
           THEN /\ catalog' = (catalog \ existing) \cup updated
                /\ createCall' = [createCall EXCEPT ![c] =
                       [@ EXCEPT !.pc = "done", !.result = updated]]
           ELSE /\ catalog' = catalog
                /\ createCall' = [createCall EXCEPT ![c] =
                       [@ EXCEPT !.pc = "insert"]]
    /\ UNCHANGED <<pipeline, gptCall, geminiCall, searchCall, batch, cmpCall,
                   comparisons, cmpReq, logRows, logCall, statusCall,
                   slugCall, now, progressCall>>

\* existing = await Product.find_one(...); if existing: return existing
create_product_find(c) ==
    /\ createCall[c].pc = "find"
    /\ createCall[c].op = "create"
    /\ LET existing == FindProduct(catalog, createCall[c].product_id)
       IN  IF existing # {}
           THEN createCall' = [createCall EXCEPT ![c] =
                    [@ EXCEPT !.pc = "done", !.result = existing]]
           ELSE createCall' = [createCall EXCEPT ![c] =
                    [@ EXCEPT !.pc = "insert"]]
    /\ UNCHANGED <<pipeline, gptCall, geminiCall, searchCall, batch, cmpCall,
                   comparisons, cmpReq, catalog, logRows, logCall,
                   statusCall, slugCall, now, progressCall>>

\* product = Product(...); await product.insert(); return product. The
\* unique index on product_id refuses a second document of the same id.
create_product_insert(c) ==
    /\ createCall[c].pc = "insert"
    /\ LET product == Product(createCall[c].product_id,
                              createCall[c].product_name,
                              createCall[c].metadata, now)
       IN  IF FindProduct(catalog, createCall[c].product_id) # {}
           THEN /\ catalog' = catalog
                /\ createCall' = [createCall EXCEPT ![c] =
                       [@ EXCEPT !.pc = "done", !.raised = TRUE]]
           ELSE /\ catalog' = catalog \cup {product}
                /\ createCall' = [createCall EXCEPT ![c] =
                       [@ EXCEPT !.pc = "done", !.result = {product}]]
    /\ UNCHANGED <<pipeline, gptCall, geminiCall, searchCall, batch, cmpCall,
                   comparisons, cmpReq, logRows, logCall, statusCall,
                   slugCall, now, progressCall>>

\* update_product_status(product_id, status), or the status write that ends
\* save_analysis_results and update_processing_status, is called.
update_product_status_call(c) ==
    /\ createCall[c].pc = "idle"
    /\ \E product_name \in CatalogNames, status \in WrittenStatuses :
         createCall' = [createCall EXCEPT ![c] =
             [@ EXCEPT !.pc = "find", !.op = "status", !.status = status,
                  !.product_id = generate_product_id(product_name)]]
    /\ UNCHANGED <<pipeline, gptCall, geminiCall, searchCall, batch, cmpCall,
                   comparisons, cmpReq, catalog, logRows, logCall,
                   statusCall, slugCall, now, progressCall>>

\* product = await Product.find_one(...); if product: ... else return False
update_product_status_find(c) ==
    /\ createCall[c].pc = "find"
    /\ createCall[c].op = "status"
    /\ LET product == FindProduct(catalog, createCall[c].product_id)
       IN  createCall' = [createCall EXCEPT ![c] =
               [@ EXCEPT !.pc = IF product = {} THEN "done" ELSE "save",
                    !.result = product]]
    /\ UNCHANGED <<pipeline, gptCall, geminiCall, searchCall, batch, cmpCall,
                   comparisons, cmpReq, catalog, logRows, logCall,
                   statusCall, slugCall, now, progressCall>>

\* product.status = status; await product.save(): the document read by
\* find_one is written back whole.
update_product_status_save(c) ==
    /\ createCall[c].pc = "save"
    /\ catalog' = (catalog \ FindProduct(catalog, createCall[c].product_id))
                    \cup {[d EXCEPT !.status = createCall[c].status]
                             : d \in createCall[c].result}
    /\ createCall' = [createCall EXCEPT ![c] = [@ EXCEPT !.pc = "done"]]
    /\ UNCHANGED <<pipeline, gptCall, geminiCall, searchCall, batch, cmpCall,
                   comparisons, cmpReq, logRows, logCall, statusCall,
                   slugCall, now, progressCall>>

\* The call returns or raises.
storage_return(c) ==
    /\ createCall[c].pc = "done"
    /\ createCall' = [createCall EXCEPT ![c] = IdleCreate]
    /\ UNCHANGED <<pipeline, gptCall, geminiCall, searchCall, batch, cmpCall,
                   comparisons, cmpReq, catalog, logRows, logCall,
                   statusCall, slugCall, now, progressCall>>

CatalogNext ==
    \/ tick
    \/ \E c \in Callers :
          \/ create_product_call(c)
          \/ create_product_find(c)
          \/ create_product_insert(c)
          \/ update_product_status_call(c)
          \/ update_product_status_find(c)
          \/ update_product_status_save(c)
          \/ storage_return(c)

\* Concurrent calls of the storage service that read or write Product.
CatalogSpec == Init /\ [][CatalogNext]_vars

\* ----------------------------- processing_logs with timestamps, read back
\* Tasks calling update_processing_status for the product: the pipeline runs
\* of the product, which may overlap.
Writers == {1, 2}

\* log = ProcessingLog(..., timestamp=datetime.utcnow(), ...): the row is
\* built with the clock's value, before the insert is awaited.
update_processing_status_construct(w) ==
    /\ logCall[w].pc = "idle"
    /\ Len(logRows) + Cardinality({v \in Writers : logCall[v].pc = "insert"})
          < MaxRows
    /\ logCall' = [logCall EXCEPT ![w] = [pc |-> "insert", timestamp |-> now]]
    /\ UNCHANGED <<pipeline, gptCall, geminiCall, searchCall, batch, cmpCall,
                   comparisons, cmpReq, catalog, createCall, logRows,
                   statusCall, slugCall, now, progressCall>>

\* await log.insert(): the row is appended to the collection.
update_processing_status_insert(w) ==
    /\ logCall[w].pc = "insert"
    /\ logRows' = Append(logRows, logCall[w].timestamp)
    /\ logCall' = [logCall EXCEPT ![w] = IdleLog]
    /\ UNCHANGED <<pipeline, gptCall, geminiCall, searchCall, batch, cmpCall,
                   comparisons, cmpReq, catalog, createCall, statusCall,
                   slugCall, now, progressCall>>

\* .sort(-ProcessingLog.timestamp).limit(1): the rows with the greatest
\* timestamp, by position; the sort leaves the order of equal timestamps to
\* the store.
Newest(rows) ==
    {k \in 1..Len(rows) : \A j \in 1..Len(rows) : rows[j] <= rows[k]}

\* logs = await ProcessingLog.find(...).sort(...).limit(1).to_list();
\* return logs[0] if logs else None (0 stands for None).
get_latest_status ==
    /\ statusCall.pc = "idle"
    /\ IF logRows = <<>>
       THEN statusCall' = [pc |-> "returned", logs |-> 0]
       ELSE \E k \in Newest(logRows) :
               statusCall' = [pc |-> "returned", logs |-> k]
    /\ UNCHANGED <<pipeline, gptCall, geminiCall, searchCall, batch, cmpCall,
                   comparisons, cmpReq, catalog, createCall, logRows,
                   logCall, slugCall, now, progressCall>>

\* get_product_status builds its response from the row.
get_latest_status_return ==
    /\ statusCall.pc = "returned"
    /\ statusCall' = IdleStatus
    /\ UNCHANGED <<pipeline, gptCall, geminiCall, searchCall, batch, cmpCall,
                   comparisons, cmpReq, catalog, createCall, logRows,
                   logCall, slugCall, now, progressCall>>

LogNext ==
    \/ tick
    \/ \E w \in Writers :
          \/ update_processing_status_construct(w)
          \/ update_processing_status_insert(w)
    \/ get_latest_status
    \/ get_latest_status_return

\* Appends to the product's processing log and reads of its latest row.
LogSpec == Init /\ [][LogNext]_vars

\* ------------------------------------------ progress of the per-URL rows
\* The loop head of "for i, url in enumerate(urls)" with len(urls) = n
\* writes the scrape row of URL i.
progress_scrape_row ==
    /\ progressCall.pc = "idle"
    /\ \E n \in 1..MaxN : \E i \in 0..(n - 1) :
         progressCall' = [progressCall EXCEPT !.pc = "scrape", !.i = i,
             !.n = n,
             !.scrape = ProcessingLog("scrape", "in_progress",
                                      ScrapeProgress(i, n), FALSE)]
    /\ UNCHANGED <<pipeline, gptCall, geminiCall, searchCall, batch, cmpCall,
                   comparisons, cmpReq, catalog, createCall, logRows, logCall,
                   statusCall, slugCall, now>>

\* The same iteration writes the analyze row of URL i.
progress_analyze_row ==
    /\ progressCall.pc = "scrape"
    /\ progressCall' = [progressCall EXCEPT !.pc = "analyze",
           !.analyze = ProcessingLog("analyze", "in_progress",
                           AnalyzeProgress(progressCall.i, progressCall.n),
                           FALSE)]
    /\ UNCHANGED <<pipeline, gptCall, geminiCall, searchCall, batch, cmpCall,
                   comparisons, cmpReq, catalog, createCall, logRows, logCall,
                   statusCall, slugCall, now>>

\* The iteration ends.
progress_next_url ==
    /\ progressCall.pc = "analyze"
    /\ progressCall' = IdleProgress
    /\ UNCHANGED <<pipeline, gptCall, geminiCall, searchCall, batch, cmpCall,
                   comparisons, cmpReq, catalog, createCall, logRows, logCall,
                   statusCall, slugCall, now>>

ProgressNext ==
    \/ progress_scrape_row
    \/ progress_analyze_row
    \/ progress_next_url

\* The progress rows of one loop iteration, for every list length and index.
ProgressSpec == Init /\ [][ProgressNext]_vars

\* ---------------------------------------------------------------- views
\* Product.status of the followed product ("" before it is created).
status == IF products = {} THEN "" ELSE (CHOOSE p \in products : TRUE).status

RECURSIVE RawCount(_)
\* The number of raw_reviews rows inserted by tasks 1..n.
RawCount(n) == IF n = 0 THEN 0 ELSE Len(raw[n]) + RawCount(n - 1)

\* GET /products/{product_id}: reviews = await get_raw_reviews(product_id);
\* reviews_count = len(reviews), every RawReview row of the product.
reviews_count == RawCount(MaxRuns)

\* Background tasks that have been started and have not returned.
InFlight == {r \in RunIds : runs[r].pc \notin {"idle", "done"}}

\* ------------------------------------------------------------------ claims

\* C1 (as stated): under any interleaving of analyze requests, also when two
\* requests both read the product before either writes it, at most one
\* pipeline run of the product is in flight.
C1_AtMostOneRunAnyInterleaving == Cardinality(InFlight) <= 1

\* C1 (amended): as long as no analyze request has passed the status check
\* between another request's check and its write of "processing", at most one
\* pipeline run of the product is in flight.
C1_AtMostOneRunWithoutOverlap == (~raced) => Cardinality(InFlight) <= 1

\* Two requests, one after the other, have each started a run (the first run
\* failed), and only the second is in flight.
C1_Witness == ~raced /\ nRuns = 2 /\ Cardinality(InFlight) = 1

\* C2: an analyze request that finds the product processing or completed is
\* a no-op: it starts no run, appends no ProcessingLog row, leaves
\* Product.status and the rest of the store unchanged, and answers with that
\* status.  (A step that is not the second half of a request and changes req
\* or resp is the status check of a request.)
C2_ReentryIsNoOp ==
    [][ ( /\ status \in {"processing", "completed"}
          /\ \A c \in Clients : req[c] = "checked" => req'[c] = "checked"
          /\ (req' # req \/ resp' # resp) )
        => ( /\ req' = req
             /\ resp' = Response(202, status)
             /\ UNCHANGED <<products, raw, analysis, log, lastLog, runs, nRuns>> ) ]_vars

\* A request has been answered "completed" for a completed product while the
\* log holds the rows of the one run that was started.
C2_Witness ==
    /\ resp = Response(202, "completed")
    /\ status = "completed"
    /\ nRuns = 1
    /\ log[1] # <<>>

\* Run r returns in this step.
Returns(r) == runs[r].pc # "done" /\ runs'[r].pc = "done"

\* Run r completes the write of save_analysis_results in this step.
Upserts(r) == runs[r].pc = "an_write" /\ runs'[r].pc = "an_status"

\* C3: when the Analyzer raises while URL i is processed and another URL
\* follows, the run does not end there: URL i+1 is still extracted, so a run
\* that has returned has extracted every URL of its list.
C3_LoopSurvivesAnalyzerError ==
    \A r \in RunIds :
        ( /\ runs[r].pc = "done"
          /\ runs[r].raised = "analyze"
          /\ runs[r].i + 1 < Len(runs[r].urls) )
        => runs[r].nScrape = Len(runs[r].urls)

\* C4 (as stated): at every point of a run at which an AnalysisResult exists,
\* each of its fields is the analyzer's output for the full list of reviews
\* scraped so far in the run (or the default of a field the analyzer
\* omitted).  Stated for the case of a single run.
C4_RecordAlwaysCoversAllReviews ==
    (nRuns = 1) =>
        \A r \in InFlight : \A d \in analysis : \A f \in Fields :
            d[f] \in {runs[r].accumulated_reviews, Default}

\* C4 (amended): every upsert of a run writes, into every field the analyzer
\* returned, the analyzer's output for the full list of reviews accumulated
\* so far in the run (never for the newest review alone).
C4_UpsertCoversAllReviews ==
    [][ \A r \in RunIds : Upserts(r) =>
            \E d \in analysis' : \A f \in runs[r].analysis_result.keys :
                d[f] = runs[r].accumulated_reviews ]_vars

\* The second upsert of a run has stored the analysis of both reviews.
C4_Witness ==
    \E r \in RunIds :
        /\ runs[r].nSaved = 2
        /\ runs[r].accumulated_reviews = <<"c1", "c2">>
        /\ \E d \in analysis : d["sentiment"] = <<"c1", "c2">>

\* C6: once Product.status has been set to completed, no later step of the
\* same run sets it to failed.  Stated for the case of a single run, where
\* every status write is the run's.
C6_CompletedIsFinal ==
    [][ (nRuns = 1 /\ status = "completed") => status' # "failed" ]_vars

\* C10: save_analysis_results replaces the whole record: after an upsert over
\* an existing record every analysis field is the payload's value, or the
\* field's default when the payload omits it.  Stated for a single run.
C10_UpsertReplacesRecord ==
    [][ \A r \in RunIds :
            (nRuns = 1 /\ Upserts(r) /\ runs[r].existing # {}) =>
                \A d \in analysis' : \A f \in Fields :
                    d[f] = IF f \in runs[r].analysis_result.keys
                           THEN runs[r].analysis_result.basis
                           ELSE Default ]_vars

Terminal == {"completed", "failed"}

\* C5: every started run eventually returns (a started run stays in flight
\* until it returns and is never restarted, so this is: again and again no
\* run is in flight), and has by then appended a ProcessingLog row with
\* status completed or failed as its last row, also when Discovery or the
\* Analyzer raised; once no run is in flight the newest log row of the
\* product has a terminal status.
C5_RunEndsWithTerminalRow ==
    /\ []<>(InFlight = {})
    /\ [](\A r \in RunIds : runs[r].pc = "done" =>
              (log[r] # <<>> /\ Last(log[r]).status \in Terminal))
    /\ []( (nRuns > 0 /\ InFlight = {}) =>
              Last(log[lastLog]).status \in Terminal )

\* A run in which the Analyzer raised has returned with a failed last row.
C5_Witness ==
    \E r \in RunIds :
        /\ runs[r].pc = "done"
        /\ runs[r].raised = "analyze"
        /\ Last(log[r]).status = "failed"
        /\ InFlight = {}

\* The run had two URLs, the first failed extraction, the second was
\* extracted, analysed and saved.
FirstFailsSecondSucceeds(run) ==
    /\ Len(run.urls) = 2
    /\ run.failed_scrapes = 1
    /\ run.accumulated_reviews = <<Content(run.urls[2])>>
    /\ run.nSaved = 1
    /\ run.raised = "none"

\* C7: a run in which extraction of URL 1 fails and extraction and analysis
\* of URL 2 succeed returns with Product.status = completed and the last row
\* (analyze, completed, 100); it made one Analyzer call and appended exactly
\* one RawReview row, the review of URL 2; and, the run being the only one
\* started for the product, the AnalysisResult is the one record holding the
\* analysis of exactly that review.
C7_SecondUrlOnly ==
    [][ \A r \in RunIds :
          (Returns(r) /\ FirstFailsSecondSucceeds(runs'[r])) =>
            ( /\ status' = "completed"
              /\ Last(log'[r]) =
                     ProcessingLog("analyze", "completed", 100, FALSE)
              /\ raw'[r] = <<Content(runs'[r].urls[2])>>
              /\ runs'[r].nAnalyze = 1
              /\ (nRuns' = 1 =>
                    /\ Cardinality(analysis') = 1
                    /\ \A d \in analysis' :
                          /\ \A f \in Fields :
                                d[f] \in {<<Content(runs'[r].urls[2])>>,
                                          Default}
                          /\ \E f \in Fields :
                                d[f] = <<Content(runs'[r].urls[2])>>) ) ]_vars

C7_Witness ==
    \E r \in RunIds :
        /\ runs[r].pc = "done"
        /\ FirstFailsSecondSucceeds(runs[r])
        /\ nRuns = 1
        /\ status = "completed"
        /\ \E d \in analysis : d["sentiment"] = <<"c2">>

\* Every URL of the run failed extraction or yielded empty content.
EveryUrlFails(run) ==
    /\ Len(run.urls) >= 1
    /\ run.failed_scrapes = Len(run.urls)

\* C8: a run in which every URL fails extraction (or yields empty content)
\* returns with the last row (scrape, failed, 0) carrying an error text and
\* Product.status = failed; it made no Analyzer call and wrote no
\* AnalysisResult, so that, the run being the only one started for the
\* product, the product has no AnalysisResult.
C8_AllUrlsFail ==
    [][ \A r \in RunIds :
          (Returns(r) /\ EveryUrlFails(runs'[r])) =>
            ( /\ Last(log'[r]) = ProcessingLog("scrape", "failed", 0, TRUE)
              /\ status' = "failed"
              /\ runs'[r].nAnalyze = 0
              /\ runs'[r].nSaved = 0
              /\ (nRuns' = 1 => analysis' = {}) ) ]_vars

C8_Witness ==
    \E r \in RunIds :
        /\ runs[r].pc = "done"
        /\ Len(runs[r].urls) = 2
        /\ EveryUrlFails(runs[r])
        /\ status = "failed"
        /\ analysis = {}

\* C9: when Discovery returns an empty URL list the run writes (search,
\* failed, 0) with an error as its last row (after the one search row), sets
\* Product.status to failed, and performs no extraction call, no RawReview
\* write, no Analyzer call and no AnalysisResult write.
C9_NoUrlsFound ==
    [][ \A r \in RunIds :
          (Returns(r) /\ runs'[r].urls = <<>> /\ runs'[r].raised = "none") =>
            ( /\ log'[r] = <<ProcessingLog("search", "in_progress", 10, FALSE),
                             ProcessingLog("search", "failed", 0, TRUE)>>
              /\ status' = "failed"
              /\ runs'[r].nScrape = 0
              /\ raw'[r] = <<>>
              /\ runs'[r].nAnalyze = 0
              /\ runs'[r].nSaved = 0 ) ]_vars

C9_Witness ==
    \E r \in RunIds :
        /\ runs[r].pc = "done"
        /\ runs[r].urls = <<>>
        /\ runs[r].raised = "none"
        /\ status = "failed"
        /\ Len(log[r]) = 2

\* Run r has not finished the URL it is at, so it has URLs left to process.
UrlsLeft(r) == runs[r].pc \in {"url_log", "scrape", "save_raw", "an_log"}

\* C11: while a run still has URLs left to process Product.status is
\* processing; it does not become completed with an upsert that is not the
\* last of the run.  Stated for a single run started without overlapping
\* requests, where every status write after the start is the run's.
C11_ProcessingWhileUrlsLeft ==
    (nRuns = 1 /\ Checked = {}) =>
        \A r \in RunIds : UrlsLeft(r) => status = "processing"

\* C12: an analyze request that found the product pending or failed (it
\* passed the status check) sets Product.status to processing and starts
\* exactly one run in the step that ends the request, at which point the new
\* run has written no log row; no run starts in any other way; and the first
\* log row a run writes is (search, in_progress, 10).
C12_StartSetsProcessingFirst ==
    [][ /\ \A c \in Clients :
              (req[c] = "checked" /\ req'[c] = "idle") =>
                  ( /\ nRuns' = nRuns + 1
                    /\ status' = "processing"
                    /\ runs[nRuns'].pc = "idle"
                    /\ runs'[nRuns'].pc = "log_search"
                    /\ log'[nRuns'] = <<>>
                    /\ \A r \in RunIds \ {nRuns'} : runs'[r] = runs[r] )
        /\ (nRuns' # nRuns) =>
              \E c \in Clients : req[c] = "checked" /\ req'[c] = "idle"
        /\ \A r \in RunIds :
              (log[r] = <<>> /\ log'[r] # <<>>) =>
                  ( /\ r <= nRuns
                    /\ log'[r] =
                         <<ProcessingLog("search", "in_progress", 10, FALSE)>> )
      ]_vars

\* A request for a failed product has started the second run, which has
\* written its first row while the product is processing.
C12_Witness ==
    /\ nRuns = 2
    /\ runs[1].pc = "done"
    /\ Last(log[1]).status = "failed"
    /\ log[2] = <<ProcessingLog("search", "in_progress", 10, FALSE)>>
    /\ status = "processing"
    /\ ~raced

\* A failed attempt the claim calls transient: HTTP 429, HTTP 5xx, a timeout.
Transient(o) ==
    \/ o.kind = "timeout"
    \/ o.kind = "http" /\ (o.code >= 500 \/ o.code = 429)

\* C13: generate_response issues at most 3 requests; when the k-th request
\* fails with HTTP 429, HTTP 5xx or a timeout and k < 3 it sleeps 2k seconds
\* and then issues the next request, and when k = 3 it raises; when a request
\* succeeds it returns that response's content, and no request follows.
C13_RetriesTransientFailures ==
    [][ /\ gptCall'.requests <= 3
        /\ (gptCall.pc = "post" /\ gptCall'.pc # "post") =>
              LET o == Last(gptCall'.responses)
                  k == gptCall'.requests IN
              /\ k = gptCall.requests + 1
              /\ (o = Success) =>
                    ( /\ gptCall'.pc = "content"
                      /\ gptCall'.sleeps = gptCall.sleeps )
              /\ (Transient(o) /\ k < 3) =>
                    ( /\ gptCall'.pc = "sleep"
                      /\ gptCall'.sleeps = Append(gptCall.sleeps, 2 * k) )
              /\ (Transient(o) /\ k = 3) => gptCall'.pc = "raised"
        /\ (gptCall.pc = "sleep" /\ gptCall' # gptCall) =>
              (gptCall'.pc = "post" /\ gptCall'.requests = gptCall.requests)
        /\ (gptCall.pc \in {"content", "payload"}) =>
              (gptCall'.pc # "post" /\ gptCall'.requests \in {gptCall.requests, 0})
      ]_vars

\* After a rate limit and a timeout the third request succeeded: two sleeps,
\* of 2 s and 4 s, and the content of the third response is returned.
C13_Witness ==
    /\ gptCall.pc = "content"
    /\ gptCall.requests = 3
    /\ gptCall.sleeps = <<2, 4>>
    /\ gptCall.responses[1].code = 429
    /\ gptCall.responses[2].kind = "timeout"
    /\ gptCall.responses[3] = Success

\* C14: when the provider answers the first request with a 4xx status other
\* than 429, generate_response raises after that single request: it has not
\* slept and issues no second request.
C14_NoRetryOfClientError ==
    ( /\ gptCall.responses # <<>>
      /\ gptCall.responses[1].kind = "http"
      /\ gptCall.responses[1].code >= 400
      /\ gptCall.responses[1].code < 500
      /\ gptCall.responses[1].code # 429 )
    => ( /\ gptCall.pc = "raised"
         /\ gptCall.requests = 1
         /\ gptCall.sleeps = <<>> )

\* Number of requests of the followed generate_response call that got a
\* generation back.
Generations == Len(SelectSeq(gptCall.responses, LAMBDA o : o = Success))

\* C15: one analyze call makes exactly one LLM generation call, also when the
\* text does not parse as JSON: GeminiService then parses a second time, the
\* cleaned text, and raises without a payload when that fails too; a payload
\* is returned only for a text that parsed.  GPTService.analyze_product calls
\* generate_response once, and no request follows the response that carried
\* the text, whether the extraction parses or not.
C15_OneGenerationPerAnalyze ==
    /\ geminiCall.nGenerate <= 1
    /\ geminiCall.pc \in {"parse", "cleanup", "payload", "raised"} =>
          geminiCall.nGenerate = 1
    /\ geminiCall.pc = "cleanup" =>
          (geminiCall.nParse = 1 /\ ~JsonLoads(geminiCall.text))
    /\ geminiCall.pc = "payload" => JsonLoads(geminiCall.text)
    /\ (geminiCall.pc = "raised" /\ geminiCall.raised = "parse") =>
          geminiCall.nParse = 2
    /\ gptCall.caller = "analyze_product" =>
          ( /\ gptCall.nGenerate = 1
            /\ Generations <= 1
            /\ gptCall.text # <<>> => Last(gptCall.responses) = Success
            /\ gptCall.pc = "payload" => JsonLoads(GptExtract(gptCall.text)) )

\* The LLM's text did not parse, directly or cleaned: the call has raised
\* after one generation call and two parse attempts.
C15_Witness ==
    /\ geminiCall.pc = "raised"
    /\ geminiCall.raised = "parse"
    /\ geminiCall.nGenerate = 1
    /\ geminiCall.nParse = 2
    /\ geminiCall.text = <<"F", "{", "t", "}">>

Scraped == {i \in 1..Len(batch.tasks) : batch.tasks[i].pc = "done"}

\* C17: scrape_url returns success false with an error string and empty
\* content when the provider's status is not 200, when the provider reports
\* failure and when the response carries no markdown; a result with success
\* true carries extracted markdown.
C17_FailureClassification ==
    \A i \in Scraped :
        LET result == scrape_url(batch.urls[i], batch.tasks[i].response) IN
        /\ batch.tasks[i].response \in
                {"http_error", "provider_failure", "no_markdown"} =>
              ( /\ result.success = FALSE
                /\ result.error # ""
                /\ result.content = <<>> )
        /\ result.success => result.content # <<>>

\* C18: scrape_urls_parallel returns one result per input URL, in input
\* order: result i is the dict scrape_url returned for URL i, or, when task i
\* raised, a result for URL i with success false and empty content.
C18_OneResultPerUrlInOrder ==
    batch.pc = "returned" =>
        /\ Len(batch.processed_results) = Len(batch.urls)
        /\ \A i \in 1..Len(batch.urls) :
              /\ batch.processed_results[i].url = batch.urls[i]
              /\ batch.tasks[i].pc = "raised" =>
                    ( /\ batch.processed_results[i].success = FALSE
                      /\ batch.processed_results[i].content = <<>> )
              /\ batch.tasks[i].pc = "done" =>
                    batch.processed_results[i] =
                        scrape_url(batch.urls[i], batch.tasks[i].response)

\* A batch of three URLs given in descending order has returned; the task of
\* the second URL raised, the other two were extracted.
C18_Witness ==
    /\ batch.pc = "returned"
    /\ batch.urls = <<3, 2, 1>>
    /\ batch.tasks[2].pc = "raised"
    /\ batch.processed_results[1].content = Markdown(3)
    /\ batch.processed_results[2].success = FALSE
    /\ batch.processed_results[3].content = Markdown(1)

\* C19: at no time are more than 4 scrape_url calls of a batch in flight,
\* however many URLs it has, and every batch that was started returns, each
\* of its tasks having got a slot and finished.
C19_BoundedAndLive ==
    /\ [](Cardinality(Scraping(batch.tasks)) <= 4)
    /\ [](batch.pc = "returned" =>
             \A i \in 1..Len(batch.tasks) :
                 batch.tasks[i].pc \in {"done", "raised"})
    /\ (batch.pc = "gather") ~> (batch.pc = "returned")

\* Five URLs: four calls are in flight and the fifth task waits for a slot.
C19_Witness ==
    /\ batch.pc = "gather"
    /\ Len(batch.urls) = 5
    /\ Cardinality(Scraping(batch.tasks)) = 4
    /\ batch.tasks[5].pc = "waiting"

\* C20: for every key_differences list of strings and objects the normalized
\* list has the same length and order and holds only strings: a string entry
\* is unchanged, an object entry has become its "difference" field or, when
\* it has none, the object's string form.
C20_KeyDifferencesAreStrings ==
    cmpCall.pc = "normalized" =>
        /\ Len(cmpCall.key_differences) = Len(cmpCall.key_diffs)
        /\ \A i \in 1..Len(cmpCall.key_diffs) :
              LET diff == cmpCall.key_diffs[i]
                  out == cmpCall.key_differences[i] IN
              /\ out.kind = "str"
              /\ diff.kind = "str" => out = diff
              /\ (diff.kind = "dict" /\ diff.has_difference) =>
                    out = Str(diff.value)
              /\ (diff.kind = "dict" /\ ~diff.has_difference) =>
                    out = StrOf(diff)

\* The list holds only strings, string entries of the input unchanged and
\* dict entries replaced by their "quote" field or their string form.
QuotesNormalized(in, out) ==
    /\ Len(out) = Len(in)
    /\ \A i \in 1..Len(in) :
          /\ out[i].kind = "str"
          /\ in[i].kind = "str" => out[i] = in[i]
          /\ (in[i].kind = "dict" /\ in[i].has_quote) =>
                out[i] = QuoteStr(in[i].value)
          /\ (in[i].kind = "dict" /\ ~in[i].has_quote) =>
                out[i] = QuoteStr("{" \o in[i].value \o "}")

\* C21: for every pros/cons list of pros_cons and every quotes list of
\* feature_comparison made of strings and objects, the normalized list holds
\* only strings: string entries unchanged, object entries replaced by their
\* "quote" field or, lacking one, by the object's string form.
C21_QuoteListsAreStrings ==
    cmpCall.pc = "normalized" =>
        /\ QuotesNormalized(cmpCall.pros_in, cmpCall.pros)
        /\ QuotesNormalized(cmpCall.quotes_in, cmpCall.quotes)

\* The request names too few or too many ids, or an id without a Product or
\* without an AnalysisResult.
Invalid(product_ids) ==
    \/ Len(product_ids) < 2
    \/ Len(product_ids) > 4
    \/ \E i \in 1..Len(product_ids) :
          product_ids[i] \notin StoredProducts \cap StoredAnalyses

\* C22: a compare request with fewer than 2 or more than 4 product ids, or
\* naming an id that has no Product or no AnalysisResult, is rejected (400 or
\* 404, 422) once it has been looked at, has made no LLM call, and no Comparison
\* row has been written.
C22_InvalidRequestRejected ==
    ( /\ cmpReq.op = "compare"
      /\ cmpReq.pc \notin {"idle", "validate"}
      /\ Invalid(cmpReq.product_ids) )
    => ( /\ cmpReq.pc = "responded"
         /\ cmpReq.response.code \in {400, 404, 422}
         /\ cmpReq.llm_calls = 0
         /\ comparisons = <<>> )

\* A request naming an analysed product and one without analysis has been
\* answered 404, without LLM call or row.
C22_Witness ==
    /\ cmpReq.pc = "responded"
    /\ cmpReq.product_ids = <<"p1", "pa">>
    /\ cmpReq.response.code = 404
    /\ cmpReq.llm_calls = 0
    /\ comparisons = <<>>

\* C23: when the LLM's comparison result has no overall_winner, the
\* comparison's overall_winner is the first compared product id: in the
\* response of the compare request and in the comparison that was saved.
C23_WinnerDefaultsToFirstId ==
    ( /\ cmpReq.op = "compare"
      /\ cmpReq.pc = "responded"
      /\ cmpReq.response.code = 201
      /\ ~cmpReq.comparison_result.has_winner )
    => ( /\ cmpReq.response.overall_winner = cmpReq.product_ids[1]
         /\ comparisons[1].overall_winner = cmpReq.product_ids[1] )

\* C24: a null cell of comparison_matrix is stored as null, the row holding
\* the cell as the LLM returned it, and is presented as 0.0 in the response
\* of the compare request and when the comparison is read back by id; a cell
\* that is not null is presented unchanged.
C24_NullCellPresentedAsZero ==
    /\ (cmpReq.op = "compare" /\ cmpReq.pc \in {"respond", "responded"}
            /\ comparisons # <<>>) =>
          comparisons[1].cell = cmpReq.comparison_result.cell
    /\ (cmpReq.op = "compare" /\ cmpReq.response.code = 201) =>
          cmpReq.response.cell =
              IF cmpReq.comparison_result.cell = "null" THEN "0.0"
              ELSE cmpReq.comparison_result.cell
    /\ (cmpReq.op = "get" /\ cmpReq.response.code = 200) =>
          cmpReq.response.cell =
              IF comparisons[1].cell = "null" THEN "0.0"
              ELSE comparisons[1].cell

\* A comparison saved with a null cell has been read back by id: the row
\* still holds null, the response 0.0.
C24_Witness ==
    /\ cmpReq.op = "get"
    /\ cmpReq.response.code = 200
    /\ comparisons[1].cell = "null"
    /\ cmpReq.response.cell = "0.0"

\* C29: generate_product_id is idempotent, applying it to its own result
\* gives that result, and the result contains only characters of [a-z0-9-],
\* neither starts nor ends with a hyphen and has no two hyphens in a row.
C29_SlugIdempotentAndClean ==
    slugCall.pc = "done" =>
       /\ slugCall.again = slugCall.product_id
       /\ slugCall.product_id = generate_product_id(slugCall.product_name)
       /\ \A i \in 1..Len(slugCall.product_id) :
             slugCall.product_id[i] \in {"a", "7", "-"}
       /\ slugCall.product_id # <<>> =>
             /\ Head(slugCall.product_id) # "-"
             /\ slugCall.product_id[Len(slugCall.product_id)] # "-"
       /\ \A i \in 1..(Len(slugCall.product_id) - 1) :
             ~(slugCall.product_id[i] = "-" /\ slugCall.product_id[i + 1] = "-")

\* A name with uppercase, surrounding hyphens and a mixed run of separators
\* has been normalised twice.
C29_Witness ==
    /\ slugCall.pc = "done"
    /\ slugCall.product_name = <<"-", "A", " ", "-">>
    /\ slugCall.product_id = <<"a">>
    /\ slugCall.again = <<"a">>

\* C25: create_product called with a name whose slug is the product_id of an
\* existing product returns that record and inserts nothing; and no step of
\* any storage call removes a product, creates a second one of the same
\* product_id, or changes a product's display name, metadata, creation time
\* or processing_stats: status is the only field that changes.
C25_CreateIdempotentStatusOnlyMutable ==
    [][ /\ \A d \in catalog : \E e \in catalog' :
              /\ e.product_id = d.product_id
              /\ e.product_name = d.product_name
              /\ e.metadata = d.metadata
              /\ e.created_at = d.created_at
              /\ e.processing_stats = d.processing_stats
        /\ \A d, e \in catalog' : d.product_id = e.product_id => d = e
        /\ \A c \in Callers :
              ( /\ createCall[c].op = "create"
                /\ createCall[c].pc = "find"
                /\ createCall'[c].pc # "find"
                /\ FindProduct(catalog, createCall[c].product_id) # {} )
              => ( /\ catalog' = catalog
                   /\ createCall'[c].pc = "done"
                   /\ ~createCall'[c].raised
                   /\ createCall'[c].result =
                         FindProduct(catalog, createCall[c].product_id) )
      ]_vars

\* create_product has returned an existing product created earlier under
\* another name of the same slug, and that product's status has been written
\* since its creation.
C25_Witness ==
    \E c \in Callers :
       /\ createCall[c].op = "create"
       /\ createCall[c].pc = "done"
       /\ \E d \in createCall[c].result :
             /\ d \in catalog
             /\ d.product_name # createCall[c].product_name
             /\ d.metadata # createCall[c].metadata
             /\ d.status = "completed"
             /\ d.created_at < now

C28_LogRowsValidAndAppendOnly ==
    [][ \A r \in RunIds :
          /\ Len(log'[r]) >= Len(log[r])
          /\ SubSeq(log'[r], 1, Len(log[r])) = log[r]
          /\ \A k \in 1..Len(log'[r]) :
                /\ log'[r][k].stage \in {"search", "scrape", "analyze"}
                /\ log'[r][k].status \in {"in_progress", "completed", "failed"}
                /\ log'[r][k].progress >= 0
                /\ log'[r][k].progress <= 100
      ]_vars

\* A run over two URLs has completed: its rows include the loop head row of
\* the second URL and the final row at 100.
C28_Witness ==
    \E r \in RunIds :
       /\ runs[r].pc = "done"
       /\ Len(log[r]) >= 6
       /\ Last(log[r]).status = "completed"
       /\ Last(log[r]).progress = 100
       /\ \E k \in 1..Len(log[r]) :
             log[r][k].stage = "scrape" /\ log[r][k].progress = 50

\* C30: within a run the URLs are processed one after another. The
\* extraction of the URL at index i is issued only when the i URLs before it
\* have been extracted and every review extracted so far has been saved,
\* analyzed and its analysis saved; the index never goes back; the review
\* list changes only by the append of the current URL's review; and each
\* Analyzer call is passed the whole list, one review longer than at the
\* call before.
C30_UrlsStrictlySequential ==
    [][ \A r \in RunIds :
          LET a == runs[r]
              b == runs'[r]
          IN  /\ b.nScrape # a.nScrape =>
                    /\ a.pc = "scrape"
                    /\ b.nScrape = a.nScrape + 1
                    /\ a.nScrape = a.i
                    /\ Len(raw[r]) = Len(a.accumulated_reviews)
                    /\ a.nAnalyze = Len(a.accumulated_reviews)
                    /\ a.nSaved = a.nAnalyze
              /\ a.pc # "idle" => (b.i = a.i \/ b.i = a.i + 1)
              /\ b.accumulated_reviews # a.accumulated_reviews =>
                    /\ a.pc = "save_raw"
                    /\ b.accumulated_reviews =
                          Append(a.accumulated_reviews,
                                 Content(a.urls[a.i + 1]))
              /\ b.nAnalyze # a.nAnalyze =>
                    /\ a.pc = "an_log"
                    /\ b.nAnalyze = a.nAnalyze + 1
                    /\ Len(a.accumulated_reviews) = a.nAnalyze + 1
                    /\ b.pc = "an_find" =>
                          b.analysis_result.basis = a.accumulated_reviews
      ]_vars

\* A run has extracted, saved and analyzed two URLs in turn.
C30_Witness ==
    \E r \in RunIds :
       /\ runs[r].nScrape = 2
       /\ runs[r].nAnalyze = 2
       /\ runs[r].nSaved = 2
       /\ runs[r].accumulated_reviews = <<"c1", "c2">>

\* C27: get_latest_status returns the most recently appended ProcessingLog
\* row of the product (none when there is no row), whatever appends came
\* before, appends that read the same clock value included.
C27_LatestIsLastAppended ==
    statusCall.pc = "returned" => statusCall.logs = Len(logRows)

\* C31: an iteration whose extraction fails or returns empty content writes
\* its progress row and counts one failed URL, and nothing else: the
\* accumulated-reviews list, the raw reviews, the AnalysisResult and the
\* product's status stay as they are, no Analyzer call is made, and the loop
\* goes on to the next URL (or leaves the loop after the last one).
C31_FailedIterationChangesNothing ==
    [][ \A r \in RunIds :
          LET a == runs[r]
              b == runs'[r]
          IN  /\ (a.pc = "url_log" /\ b.pc # "url_log") =>
                    /\ raw' = raw
                    /\ analysis' = analysis
                    /\ products' = products
                    /\ b.accumulated_reviews = a.accumulated_reviews
                    /\ Len(log'[r]) = Len(log[r]) + 1
              /\ (a.pc = "scrape" /\ b.pc # "scrape" /\ b.content = "") =>
                    /\ b.failed_scrapes = a.failed_scrapes + 1
                    /\ b.accumulated_reviews = a.accumulated_reviews
                    /\ b.nAnalyze = a.nAnalyze
                    /\ b.nSaved = a.nSaved
                    /\ raw' = raw
                    /\ analysis' = analysis
                    /\ products' = products
                    /\ log' = log
                    /\ IF a.i + 1 < Len(a.urls)
                       THEN b.pc = "url_log" /\ b.i = a.i + 1
                       ELSE b.pc = "term_log"
      ]_vars

\* The first URL of a run failed and the run went on to extract, save and
\* analyze the second.
C31_Witness ==
    \E r \in RunIds :
       /\ Len(runs[r].urls) = 2
       /\ runs[r].failed_scrapes = 1
       /\ runs[r].accumulated_reviews = <<"c2">>
       /\ runs[r].nAnalyze = 1
       /\ Len(raw[r]) = 1

\* C32: each successful scrape with non-empty content appends exactly one
\* RawReview row holding that content, no step changes or removes a row, and
\* at every loop boundary of a run (before each URL and after the last) the
\* run has appended as many RawReview rows as its accumulated-reviews list
\* is long.
C32_OneRawReviewPerSuccess ==
    [][ \A r \in RunIds :
          LET a == runs[r]
              b == runs'[r]
          IN  /\ SubSeq(raw'[r], 1, Len(raw[r])) = raw[r]
              /\ Len(raw'[r]) >= Len(raw[r])
              /\ raw'[r] # raw[r] => a.pc = "save_raw"
              /\ (a.pc = "save_raw" /\ b.pc # "save_raw") =>
                    /\ a.content # ""
                    /\ raw'[r] = Append(raw[r], a.content)
              /\ b.pc \in {"url_log", "term_log"} =>
                    Len(raw'[r]) = Len(b.accumulated_reviews)
      ]_vars

\* A run has left the loop after two successful URLs with two rows stored.
C32_Witness ==
    \E r \in RunIds :
       /\ runs[r].pc = "term_log"
       /\ runs[r].raised = "none"
       /\ raw[r] = <<"c1", "c2">>
       /\ Len(runs[r].accumulated_reviews) = 2

\* C33: for every list length N >= 1 and every index 0 <= i < N, the scrape
\* row of URL i has progress min(80, 20 + floor(60 i / N)) and its analyze
\* row has progress min(80, 20 + floor(60 (2i + 1) / (2N))), and both
\* values lie between 20 and 80.
C33_PerUrlProgressValues ==
    LET i == progressCall.i
        n == progressCall.n
        s == 20 + ((60 * i) \div n)
        a == 20 + ((60 * (2 * i + 1)) \div (2 * n))
    IN  /\ progressCall.pc \in {"scrape", "analyze"} =>
              /\ progressCall.scrape.stage = "scrape"
              /\ progressCall.scrape.progress = IF s > 80 THEN 80 ELSE s
              /\ progressCall.scrape.progress >= 20
              /\ progressCall.scrape.progress <= 80
        /\ progressCall.pc = "analyze" =>
              /\ progressCall.analyze.stage = "analyze"
              /\ progressCall.analyze.progress = IF a > 80 THEN 80 ELSE a
              /\ progressCall.analyze.progress >= 20
              /\ progressCall.analyze.progress <= 80

\* The rows of the last of seven URLs: 20 + floor(360/7) = 71 and
\* 20 + floor(780/14) = 75.
C33_Witness ==
    /\ progressCall.pc = "analyze"
    /\ progressCall.n = 7
    /\ progressCall.i = 6
    /\ progressCall.scrape.progress = 71
    /\ progressCall.analyze.progress = 75

\* The positions of the rows of task r that have a terminal status.
TerminalRows(r) ==
    {k \in 1..Len(log[r]) : log[r][k].status \in {"completed", "failed"}}

\* C34: each pipeline run writes exactly one log row with a terminal status
\* (completed or failed): none while it runs, one once it has ended, and
\* that row is the last row it wrote; a completed row is (analyze,
\* completed, 100) and is written only when the accumulated-reviews list is
\* not empty after the loop.
C34_OneTerminalRowLast ==
    \A r \in RunIds :
       /\ TerminalRows(r) \subseteq {Len(log[r])}
       /\ runs[r].pc \in {"term_status", "done"} =>
             TerminalRows(r) = {Len(log[r])}
       /\ runs[r].pc \notin {"term_status", "done"} => TerminalRows(r) = {}
       /\ \A k \in 1..Len(log[r]) :
             (log[r][k].status = "completed" \/ log[r][k].progress = 100) =>
                /\ log[r][k] = ProcessingLog("analyze", "completed", 100,
                                             FALSE)
                /\ runs[r].accumulated_reviews # <<>>
                /\ runs[r].raised = "none"

\* A run that had accumulated a review ended on an Analyzer error with a
\* single failed row, its last.
C34_Witness ==
    \E r \in RunIds :
       /\ runs[r].pc = "done"
       /\ runs[r].raised = "analyze"
       /\ runs[r].accumulated_reviews # <<>>
       /\ Len(log[r]) >= 5
       /\ Last(log[r]).status = "failed"
       /\ TerminalRows(r) = {Len(log[r])}

\* C35: in every reachable state, a product whose status is completed has an
\* AnalysisResult record.
C35_CompletedHasAnalysis ==
    \A p \in products : p.status = "completed" => analysis # {}

\* A run has returned after its completed row, the product reads completed
\* and its AnalysisResult is stored.
C35_Witness ==
    /\ status = "completed"
    /\ analysis # {}
    /\ \E r \in RunIds :
          /\ runs[r].pc = "done"
          /\ Last(log[r]).status = "completed"

\* C36: whenever the product is read with its analysis, the reviews_count of
\* the response equals the number of reviews the stored AnalysisResult was
\* computed from (the reviews passed to the Analyzer call whose result was
\* saved last).
C36_ReviewsCountMatchesAnalysis ==
    \A d \in analysis : reviews_count = Len(d["sentiment"])

\* C37: the comparison returned by a successful compare request and the one
\* get-by-id returns for the comparison it saved agree on every field
\* followed (compared_products, overall_winner, the comparison_matrix cell),
\* for every LLM result, one without overall_winner included.
C37_PostAndGetAgree ==
    ( /\ cmpReq.op = "compare"
      /\ cmpReq.pc = "responded"
      /\ cmpReq.response.code = 201 )
    => ( /\ comparisons # <<>>
         /\ cmpReq.product_ids = comparisons[1].compared_products
         /\ [cmpReq.response EXCEPT !.code = 200] =
               [code |-> 200,
                overall_winner |-> comparisons[1].overall_winner,
                cell |-> CleanCell(comparisons[1].cell)] )

\* The progress values of the rows task r has written, in order.
ProgressValues(r) == [k \in 1..Len(log[r]) |-> log[r][k].progress]

\* C38: within one pipeline run the in_progress rows start with 10 and 20
\* and their progress never decreases from one row to the next; a row whose
\* progress is lower than that of the row before is the terminal failed row
\* at 0, and a row at 100 is the terminal completed row.
C38_ProgressMonotone ==
    \A r \in RunIds :
       /\ Len(log[r]) >= 1 => log[r][1].progress = 10
       /\ (Len(log[r]) >= 2 /\ log[r][2].status = "in_progress") =>
             log[r][2].progress = 20
       /\ \A k \in 1..Len(log[r]) :
             /\ (k > 1 /\ log[r][k].status = "in_progress") =>
                   log[r][k].progress >= log[r][k - 1].progress
             /\ (k > 1 /\ log[r][k].progress < log[r][k - 1].progress) =>
                   /\ log[r][k].status = "failed"
                   /\ log[r][k].progress = 0
                   /\ k = Len(log[r])
             /\ log[r][k].progress = 100 =>
                   /\ log[r][k].status = "completed"
                   /\ k = Len(log[r])

\* A run over two URLs has written its seven rows.
C38_Witness ==
    \E r \in RunIds : ProgressValues(r) = <<10, 20, 20, 35, 50, 65, 100>>

\* C39: whatever the provider answers (success, 429, 5xx, another HTTP
\* error, a timeout, a connection error, a body without choices),
\* generate_response issues at most 3 requests, one per outcome seen, and is
\* over after the third; it ends by returning the content of a successful
\* response or by raising after a failed one, and never leaves the retry
\* loop to return no value.
C39_AtMostThreeRequestsThenReturnOrRaise ==
    /\ gptCall.requests <= 3
    /\ Len(gptCall.responses) = gptCall.requests
    /\ gptCall.pc # "none"
    /\ gptCall.requests = 3 => gptCall.pc \notin {"post", "sleep"}
    /\ gptCall.pc \in {"content", "payload"} =>
          Last(gptCall.responses) = Success
    /\ (gptCall.pc = "raised" /\ gptCall.raised = "HTTPException") =>
          /\ gptCall.requests = 3
          /\ Last(gptCall.responses) \in Failures
    /\ \A k \in 1..(Len(gptCall.responses) - 1) :
          gptCall.responses[k] \in Failures

\* An HTTP 400, a connection error and a 200 without choices: the third
\* failure is raised.
C39_Witness ==
    /\ gptCall.pc = "raised"
    /\ gptCall.requests = 3
    /\ gptCall.responses[1].code = 400
    /\ gptCall.responses[2].kind = "request_error"
    /\ gptCall.responses[3] = [kind |-> "http", code |-> 200,
                               choices |-> FALSE]

====
